---- MODULE Spec2Model ----
(***************************************************************************)
(* A model of src/rust/engine/src/nodes.rs: the Select resolver            *)
(* (Select::run, select_literal, gen_nodes, choose_task_result) and the    *)
(* Task evaluator (Task::run, Task::generate, Task::gen_get).              *)
(*                                                                         *)
(* Host values are modelled by what the code observes of them through      *)
(* externs: the type constraint they satisfy, their "name", whether they   *)
(* satisfy has_products, and their "products" sequence.                    *)
(***************************************************************************)
EXTENDS Integers, Sequences, FiniteSets, TLC

\* ------------------------------------------------------------------ bounds
\* The size of a Select's input: the length of its subject's "products" plus
\* the number of its rule entries is at most this.
MaxInput == 3
\* Most selectors in a Task's clause.
MaxClause == 2
\* Most Selects a Task joins for its clause and for one GetMulti response of
\* its generator, taken together.
MaxGets == 2
\* Most sends into a generator: its last allowed response must end it.
MaxSends == 2
\* Most Select::run bodies started against one graph store (root requests and
\* the Selects that Tasks and intrinsics run themselves).
MaxSelectRuns == 2
\* Most times the root caller runs its Select again after an Invalidated.
MaxRetries == 1
\* Most strings in the flat env list of a host process request.
MaxEnvParts == 4

\* The product types of the Selects and Tasks of an exported graph: with the
\* five fixed product strings, more strings than the palette has colors.
MaxTypes == 8

\* ------------------------------------------------------------ host values
\* The product type every modelled selector asks for, and another type.
ProductP == "P"
OtherQ == "Q"
\* context.core.types.has_products
HasProductsType == "HasProducts"

Leaf(ty, name) ==
  [ty |-> ty, name |-> name, has_products |-> FALSE, products |-> <<>>]

\* Plain values: two of the product type with different names, one of another
\* type (its name is never read by a selector for P).
Leaves == {Leaf(ProductP, "a"), Leaf(ProductP, "b"), Leaf(OtherQ, "a")}

SeqsUpTo(S, n) == UNION {[1..k -> S] : k \in 0..n}

\* A value that satisfies has_products, with its own type and name.
Composite(l, ps) ==
  [ty |-> l.ty, name |-> l.name, has_products |-> TRUE, products |-> ps]

\* The subjects a Select is run for.
Values ==
  Leaves \cup {Composite(l, ps) : l \in Leaves, ps \in SeqsUpTo(Leaves, MaxInput)}

\* The values a rule returns: a plain value, or a has_products value holding one.
TaskValues ==
  {Leaf(ProductP, "a"), Leaf(ProductP, "b"), Leaf(OtherQ, "a"),
   Composite(Leaf(OtherQ, "a"), <<Leaf(ProductP, "a")>>)}

\* externs::satisfied_by
satisfied_by(constraint, value) ==
  IF constraint = HasProductsType THEN value.has_products ELSE value.ty = constraint

\* externs::project_str(value, "name")
project_name(value) == value.name

\* externs::project_multi(value, "products")
project_products(value) == value.products

\* ---------------------------------------------------------------- options
NoneV == [tag |-> "None"]
Some(v) == [tag |-> "Some", v |-> v]

\* --------------------------------------------------------------- failures
NoTask == "NoTask"
NoVariant == "NoVariant"
Cycle == "Cycle"
Noops == {NoTask, NoVariant, Cycle}

\* The derived order of core::Noop: NoTask < NoVariant < Cycle.
NoopRank(noop) ==
  CASE noop = NoTask -> 0
    [] noop = NoVariant -> 1
    [] noop = Cycle -> 2

Ok(v) == [tag |-> "Ok", v |-> v]
FailNoop(noop) == [tag |-> "Noop", noop |-> noop]
FailThrow(msg) == [tag |-> "Throw", msg |-> msg]
FailInvalidated == [tag |-> "Invalidated"]
Pending == [tag |-> "Pending"]

\* core::throw(msg)
throw(msg) == FailThrow(msg)

ConflictMsg == "Conflicting values produced for subject and type."
RequiredMsg == "No source of required dependency: "

\* Throws raised by user code (two, to tell them apart).
UserThrows == {FailThrow("user error 1"), FailThrow("user error 2")}

IsFailure(r) == r.tag \in {"Noop", "Throw", "Invalidated"}
IsHard(r) == r.tag \in {"Throw", "Invalidated"}

was_required_Identity(failure) == failure

\* fn was_required
was_required(failure) ==
  IF failure.tag = "Noop"
    THEN throw(RequiredMsg \o failure.noop)
    ELSE failure

\* What a candidate node of a Select can complete with.
CandidateOutcomes ==
  {Ok(v) : v \in TaskValues} \cup {FailNoop(n) : n \in Noops}
    \cup UserThrows \cup {FailInvalidated}

\* --------------------------------------------------------------- variants
VariantKeyK == "k"
\* Variants, as the mapping Variants::find reads: empty, or k -> "a".
VariantMaps == {<<>>, <<<<VariantKeyK, "a">>>>}

RECURSIVE FindFrom(_, _, _)
FindFrom(variants, key, i) ==
  IF i > Len(variants) THEN NoneV
  ELSE IF variants[i][1] = key THEN Some(variants[i][2])
  ELSE FindFrom(variants, key, i + 1)

\* Variants::find
VariantsFind(variants, key) == FindFrom(variants, key, 1)

\* ---------------------------------------------------------------- Select
\* rule_graph::Rule kinds an entry resolves to.
TaskRule == "Task"
IntrinsicRule == "Intrinsic"

\* rule_graph.rule_for_inner(entry), for the rule graph modelled: entries are
\* numbered, the odd ones resolve to tasks and the even ones to intrinsics.
rule_for_inner(entry) == IF entry % 2 = 1 THEN TaskRule ELSE IntrinsicRule

\* rule_graph::Entries of a select key: the first n entries of the rule graph.
EntryLists == {[i \in 1..n |-> i] : n \in 0..MaxInput}

\* selectors::Select
Selectors == [product : {ProductP}, variant_key : {NoneV, Some(VariantKeyK)}]

\* struct Select
Selects ==
  {s \in [subject : Values, variants : VariantMaps, selector : Selectors,
          entries : EntryLists] :
     Len(s.subject.products) + Len(s.entries) <= MaxInput}

\* Select::select_literal_single
select_literal_single(select, candidate, variant_value) ==
  IF ~satisfied_by(select.selector.product, candidate) THEN FALSE
  ELSE IF variant_value.tag = "Some" /\ project_name(candidate) # variant_value.v
    THEN FALSE
  ELSE TRUE

\* A scan of the products that returns the last match instead of the first.
LastChild(select, children, variant_value, i) ==
  LET fits == {j \in i..Len(children) :
                 select_literal_single(select, children[j], variant_value)}
  IN IF fits = {} THEN NoneV
     ELSE Some(children[CHOOSE j \in fits : \A k \in fits : k <= j])

RECURSIVE FirstChild(_, _, _, _)
\* The for loop of select_literal over the products.
FirstChild(select, children, variant_value, i) ==
  IF i > Len(children) THEN NoneV
  ELSE IF select_literal_single(select, children[i], variant_value)
    THEN Some(children[i])
  ELSE FirstChild(select, children, variant_value, i + 1)

\* A select_literal that looks at the products before the value itself.
select_literal_HasAFirst(select, candidate, variant_value) ==
  LET child ==
        IF satisfied_by(HasProductsType, candidate)
          THEN FirstChild(select, project_products(candidate), variant_value, 1)
          ELSE NoneV
  IN IF child.tag = "Some" THEN child
     ELSE IF select_literal_single(select, candidate, variant_value)
       THEN Some(candidate)
     ELSE NoneV

\* Select::select_literal
select_literal(select, candidate, variant_value) ==
  IF select_literal_single(select, candidate, variant_value) THEN Some(candidate)
  ELSE IF satisfied_by(HasProductsType, candidate)
    THEN FirstChild(select, project_products(candidate), variant_value, 1)
  ELSE NoneV

\* The tail of choose_task_result: the decision once every result was read.
ChooseTail(matches, max_noop) ==
  IF Len(matches) > 1 THEN throw(ConflictMsg)
  ELSE IF Len(matches) = 1 THEN Ok(matches[1])
  ELSE FailNoop(max_noop)

RECURSIVE ChooseLoop(_, _, _, _, _, _)
\* The for loop of choose_task_result, from result i on.
ChooseLoop(select, results, variant_value, i, matches, max_noop) ==
  IF i > Len(results) THEN ChooseTail(matches, max_noop)
  ELSE LET r == results[i] IN
    CASE r.tag = "Ok" ->
           LET lit == select_literal(select, r.v, variant_value) IN
           ChooseLoop(select, results, variant_value, i + 1,
                      IF lit.tag = "Some" THEN Append(matches, lit.v) ELSE matches,
                      max_noop)
      [] r.tag = "Noop" ->
           ChooseLoop(select, results, variant_value, i + 1, matches,
                      IF NoopRank(r.noop) > NoopRank(max_noop) THEN r.noop ELSE max_noop)
      [] r.tag = "Invalidated" -> r
      [] r.tag = "Throw" -> r

RECURSIVE LoopFirstMatch(_, _, _, _, _, _)
\* choose_task_result without the conflict check: the first match wins.
LoopFirstMatch(select, results, variant_value, i, matches, max_noop) ==
  IF i > Len(results)
    THEN IF Len(matches) >= 1 THEN Ok(matches[1]) ELSE FailNoop(max_noop)
  ELSE LET r == results[i] IN
    CASE r.tag = "Ok" ->
           LET lit == select_literal(select, r.v, variant_value) IN
           LoopFirstMatch(select, results, variant_value, i + 1,
                      IF lit.tag = "Some" THEN Append(matches, lit.v) ELSE matches,
                      max_noop)
      [] r.tag = "Noop" ->
           LoopFirstMatch(select, results, variant_value, i + 1, matches,
                      IF NoopRank(r.noop) > NoopRank(max_noop) THEN r.noop ELSE max_noop)
      [] r.tag = "Invalidated" -> r
      [] r.tag = "Throw" -> r

choose_task_result_FirstMatch(select, results, variant_value) ==
  LoopFirstMatch(select, results, variant_value, 1, <<>>, NoTask)

RECURSIVE LoopLastNoop(_, _, _, _, _, _)
\* choose_task_result that keeps the last Noop read instead of the highest.
LoopLastNoop(select, results, variant_value, i, matches, max_noop) ==
  IF i > Len(results) THEN ChooseTail(matches, max_noop)
  ELSE LET r == results[i] IN
    CASE r.tag = "Ok" ->
           LET lit == select_literal(select, r.v, variant_value) IN
           LoopLastNoop(select, results, variant_value, i + 1,
                      IF lit.tag = "Some" THEN Append(matches, lit.v) ELSE matches,
                      max_noop)
      [] r.tag = "Noop" ->
           LoopLastNoop(select, results, variant_value, i + 1, matches, r.noop)
      [] r.tag = "Invalidated" -> r
      [] r.tag = "Throw" -> r

choose_task_result_LastNoop(select, results, variant_value) ==
  LoopLastNoop(select, results, variant_value, 1, <<>>, NoTask)

RECURSIVE LoopSwallow(_, _, _, _, _, _)
\* choose_task_result that skips a Throw or Invalidated like a Noop.
LoopSwallow(select, results, variant_value, i, matches, max_noop) ==
  IF i > Len(results) THEN ChooseTail(matches, max_noop)
  ELSE LET r == results[i] IN
    CASE r.tag = "Ok" ->
           LET lit == select_literal(select, r.v, variant_value) IN
           LoopSwallow(select, results, variant_value, i + 1,
                      IF lit.tag = "Some" THEN Append(matches, lit.v) ELSE matches,
                      max_noop)
      [] r.tag = "Noop" ->
           LoopSwallow(select, results, variant_value, i + 1, matches,
                      IF NoopRank(r.noop) > NoopRank(max_noop) THEN r.noop ELSE max_noop)
      [] r.tag = "Invalidated" ->
           LoopSwallow(select, results, variant_value, i + 1, matches, max_noop)
      [] r.tag = "Throw" ->
           LoopSwallow(select, results, variant_value, i + 1, matches, max_noop)

choose_task_result_Swallow(select, results, variant_value) ==
  LoopSwallow(select, results, variant_value, 1, <<>>, NoTask)

\* choose_task_result that looks for a Throw anywhere before reading in order.
choose_task_result_ThrowFirst(select, results, variant_value) ==
  LET throws == {i \in 1..Len(results) : results[i].tag = "Throw"} IN
  IF throws # {}
    THEN results[CHOOSE i \in throws : \A j \in throws : i <= j]
    ELSE ChooseLoop(select, results, variant_value, 1, <<>>, NoTask)

\* Select::choose_task_result
choose_task_result(select, results, variant_value) ==
  ChooseLoop(select, results, variant_value, 1, <<>>, NoTask)

\* ------------------------------------------------------------- Select::run
Return(result) == [tag |-> "Return", result |-> result]
Dispatch(variant_value) == [tag |-> "Dispatch", variant_value |-> variant_value]

\* The variant_key match of run: the variant value, or the early return.
variant_check(select) ==
  IF select.selector.variant_key.tag = "Some"
    THEN LET found == VariantsFind(select.variants, select.selector.variant_key.v) IN
         IF found.tag = "None" THEN Return(FailNoop(NoVariant)) ELSE Dispatch(found)
    ELSE Dispatch(NoneV)

\* A run that tries the literal match before looking the variant up.
run_head_LiteralFirst(select) ==
  LET lit == select_literal(select, select.subject, NoneV)
      vc == variant_check(select)
  IN IF lit.tag = "Some" THEN Return(Ok(lit.v)) ELSE vc

\* A run without the literal match on the subject.
run_head_NoLiteral(select) == variant_check(select)

\* The part of run before rule dispatch: an early return, or the variant value
\* the dispatch goes on with.
run_head(select) ==
  LET vc == variant_check(select) IN
  IF vc.tag = "Return" THEN vc
  ELSE LET lit == select_literal(select, select.subject, vc.variant_value) IN
       IF lit.tag = "Some" THEN Return(Ok(lit.v)) ELSE vc

SingletonNode == "Singleton"

\* The Task node gen_nodes asks the graph for: the Select's subject, product
\* and variants, and the entry.
task_node(select, entry) ==
  [subject |-> select.subject, product |-> select.selector.product,
   variants |-> select.variants, entry |-> entry]

\* The node key behind a candidate of an entry (only a Task's is modelled).
node_key(select, entry) ==
  IF rule_for_inner(entry) = TaskRule THEN task_node(select, entry) ELSE NoneV

\* A gen_nodes that goes on to the entries after a singleton.
gen_nodes_SingletonAndEntries(select, singleton_for_product) ==
  (IF singleton_for_product.tag = "Some"
     THEN <<[kind |-> SingletonNode, entry |-> 0, key |-> NoneV,
            res |-> Ok(singleton_for_product.v)]>>
     ELSE <<>>)
    \o [i \in 1..Len(select.entries) |->
          [kind |-> rule_for_inner(select.entries[i]), entry |-> select.entries[i],
           key |-> node_key(select, select.entries[i]), res |-> Pending]]

\* Select::gen_nodes: the candidate futures, each with the node behind it and
\* its state (a singleton's future is ready at once).
gen_nodes(select, singleton_for_product) ==
  IF singleton_for_product.tag = "Some"
    THEN <<[kind |-> SingletonNode, entry |-> 0, key |-> NoneV,
            res |-> Ok(singleton_for_product.v)]>>
    ELSE [i \in 1..Len(select.entries) |->
            [kind |-> rule_for_inner(select.entries[i]), entry |-> select.entries[i],
             key |-> node_key(select, select.entries[i]), res |-> Pending]]

\* A candidate whose failure fails the join.
join_input_FailFast(res) ==
  IF res.tag = "Pending" \/ IsFailure(res) THEN res ELSE Ok(res)

\* node_future.then(future::ok): what the join sees of a candidate.
join_input(res) ==
  IF res.tag = "Pending" THEN res ELSE Ok(res)

\* A join that is ready only once all elements succeeded.
join_all_ready_AllOk(elems) ==
  \A i \in 1..Len(elems) : elems[i].tag = "Ok"

\* future::join_all is ready once an element failed or all succeeded.
join_all_ready(elems) ==
  \/ \E i \in 1..Len(elems) : IsFailure(elems[i])
  \/ \A i \in 1..Len(elems) : elems[i].tag = "Ok"

\* A join that gives the values in the reverse of the input order.
join_all_Reversed(elems) ==
  IF \E i \in 1..Len(elems) : IsFailure(elems[i])
    THEN elems[CHOOSE i \in 1..Len(elems) :
                 /\ IsFailure(elems[i])
                 /\ \A j \in 1..(i - 1) : ~IsFailure(elems[j])]
    ELSE Ok([i \in 1..Len(elems) |-> elems[Len(elems) + 1 - i].v])

\* future::join_all: the first failure it finds, else the values in order.
join_all(elems) ==
  IF \E i \in 1..Len(elems) : IsFailure(elems[i])
    THEN elems[CHOOSE i \in 1..Len(elems) :
                 /\ IsFailure(elems[i])
                 /\ \A j \in 1..(i - 1) : ~IsFailure(elems[j])]
    ELSE Ok([i \in 1..Len(elems) |-> elems[i].v])

\* ------------------------------------------------------------ Task helpers
\* context.core.types.generator
GeneratorType == "Generator"
\* A generator returned by a user function.
GeneratorValue == Leaf(GeneratorType, "g")
\* externs::eval("None")
NoneValue == Leaf("NoneType", "None")
\* externs::store_tuple
store_tuple(values) == [tag |-> "Tuple", items |-> values]

\* subject.type_id()
type_id(subject) == subject.ty

\* rule_graph::Entry::matches_subject_type
matches_subject_type(edge, subject_type) == edge.subject_type = subject_type

\* RuleEdges::entries_for(select_key): the entries the edges hold for the key.
entries_for(edge_entries, select_key) == edge_entries

RECURSIVE KeptFrom(_, _, _)
\* .filter(|e| e.matches_subject_type(..)): the ids of the entries from i on
\* that apply to the subject type.
KeptFrom(edge_entries, subject_type, i) ==
  IF i > Len(edge_entries) THEN <<>>
  ELSE IF matches_subject_type(edge_entries[i], subject_type)
    THEN <<edge_entries[i].id>> \o KeptFrom(edge_entries, subject_type, i + 1)
  ELSE KeptFrom(edge_entries, subject_type, i + 1)

\* The ids of entries, all of them.
EntryIds(edge_entries) == [i \in 1..Len(edge_entries) |-> edge_entries[i].id]

\* rule_graph::SelectKey::JustSelect and JustGet
JustSelect(selector) == [tag |-> "JustSelect", selector |-> selector]
JustGet(product, subject_type) ==
  [tag |-> "JustGet", product |-> product, subject |-> subject_type]

\* selectors::Select::without_variant
without_variant(product) == [product |-> product, variant_key |-> NoneV]

\* A new_with_selector that keeps every entry of the select key.
new_with_selector_Unfiltered(selector, subject, variants, edge_entries) ==
  [subject |-> subject, variants |-> variants, selector |-> selector,
   entries |-> EntryIds(entries_for(edge_entries, JustSelect(selector)))]

\* Select::new_with_selector: the entries of the select key that match the
\* subject's type.
new_with_selector(selector, subject, variants, edge_entries) ==
  [subject |-> subject, variants |-> variants, selector |-> selector,
   entries |-> KeptFrom(entries_for(edge_entries, JustSelect(selector)), type_id(subject), 1)]

\* Select::new_with_entries
new_with_entries(product, subject, variants, entries) ==
  [subject |-> subject, variants |-> variants,
   selector |-> without_variant(product), entries |-> entries]

\* Variants::default()
VariantsDefault == <<>>

\* What Select::run completes with for given outcomes of its candidates.
select_run(sel, singleton_for_product, outcomes) ==
  LET head == run_head(sel) IN
  IF head.tag = "Return" THEN head.result
  ELSE LET ns == gen_nodes(sel, singleton_for_product)
           elems == [i \in 1..Len(ns) |->
                       join_input(IF ns[i].res = Pending THEN outcomes[i] ELSE ns[i].res)]
           joined == join_all(elems)
       IN IF joined.tag = "Ok"
            THEN choose_task_result(sel, joined.v, head.variant_value)
            ELSE joined

\* What a candidate of a Select that a Task runs can complete with.
ChildCandidateOutcomes ==
  {Ok(Leaf(ProductP, "a")), Ok(Leaf(ProductP, "b")), FailNoop(Cycle),
   FailThrow("user error 1"), FailInvalidated}

\* Everything a Select that a Task runs can complete with (no singleton is
\* registered in the Task machine).
ChildOutcomes(sel) ==
  {select_run(sel, NoneV, outcomes) :
     outcomes \in [1..Len(sel.entries) -> ChildCandidateOutcomes]}

\* The subjects Tasks are run for and Gets ask about.
TaskSubjects == {Leaf(ProductP, "a"), Leaf(OtherQ, "a")}

\* The edges of the Task's rule entry: under every select key, no entry or
\* one task entry for subjects of one type.
EdgeLists ==
  {<<>>} \cup {<<[id |-> 1, subject_type |-> t]>> : t \in {ProductP, OtherQ}}

\* struct Task (its func is the user function FuncResults stands for).
Tasks ==
  [subject : TaskSubjects, product : {ProductP}, variants : VariantMaps,
   clause : SeqsUpTo(Selectors, MaxClause)]

\* externs::call(func, deps): a value, a generator, or a Throw.
FuncResults ==
  {Ok(Leaf(ProductP, "a")), Ok(GeneratorValue), FailThrow("user error 1")}

\* externs::Get(product, subject)
Gets == [product : {ProductP}, subject : TaskSubjects]

\* externs::generator_send: a Get, a GetMulti of at most max_gets pairs, a
\* Break, or a Throw. Only a Break or a Throw when no further send is allowed.
Responses(may_continue, max_gets) ==
  {[tag |-> "Break", val |-> v] : v \in {Leaf(ProductP, "a"), Leaf(ProductP, "b")}}
    \cup {FailThrow("user error 2")}
    \cup IF may_continue
           THEN {[tag |-> "Get", get |-> g] : g \in Gets}
                  \cup {[tag |-> "GetMulti", gets |-> gs] : gs \in SeqsUpTo(Gets, max_gets)}
           ELSE {}

\* ---------------------------------------------------------------- machines
VARIABLES
  select,            \* the Select node being run
  singleton,         \* tasks.gen_singleton(product): the registered singleton
  pc,                \* "new", "joining" (deps_future pending), "done"
  variant_value,     \* the variant value run goes on with
  nodes,             \* the candidate futures gen_nodes returned
  singleton_lookups, \* calls of gen_singleton
  first_settled,     \* the candidate that completed first (0: none yet)
  result,            \* what run's future completed with
  task,              \* the Task node being run
  edges,             \* rule_graph.edges_for_inner(task.entry)
  child_outcomes,    \* what the Selects the Task can run may complete with, by clause
                     \* selector and by Get (fixed by the edges of the rule entry)
  tpc,               \* "new", "deps", "send", "gen_deps", "done"
  clause_res,        \* the clause Selects' futures
  func_calls,        \* calls of the user function
  func_args,         \* the arguments of the last call
  input,             \* the value the next send passes to the generator
  sends,             \* sends into the generator
  response_kind,     \* the kind of the last Get response: "Get", "GetMulti" or "None"
  last_response,     \* what the last generator_send returned
  gets,              \* the Gets of the last response
  get_raw,           \* what each Get's Select completed with
  get_res,           \* the Get futures gen_get joins (after map_err)
  get_first,         \* the Get of the last response that completed first (0: none yet)
  exit,              \* the place Task::run completed at
  tresult,           \* what Task::run's future completed with
  sel_runs,          \* Select::run bodies started against the graph store
  sel_demands,       \* the sites that asked for the Select, in the order they asked
  gstate,            \* the graph store's entry of each node key
  gruns,             \* how often each node key's run body was started
  gattached,         \* the keys a request attached to while their run was in flight
  root_seen,         \* what the root caller of the Select reports
  root_retries,      \* how often the root caller ran the Select again
  icands,            \* the intrinsic candidates of a Select, one per rule entry
  istore,            \* the graph store's Snapshot and ExecuteProcess nodes, by key
  iruns,             \* run bodies the graph store started for those nodes
  ires,              \* what the Select of the intrinsic candidates completed with
  nkey,              \* the node key NodeKey::run is called on
  npc,               \* where the node's run body is: "idle", "new", a step of it, "done"
  nlog,              \* the calls of collaborators the run body made, with what they gave
  nres,              \* what NodeKey::run's future completed with
  ncast,             \* the last downcast of the node's result: its target and what it gave
  viz_colors,        \* Visualizer.viz_colors: product string -> color
  viz_order,         \* the product strings in the order they entered viz_colors
  viz_walk,          \* the order in which the graph export meets new product strings
  viz_last           \* the last call of Visualizer::color: node, result and color returned

svars ==
  <<select, singleton, pc, variant_value, nodes, singleton_lookups, first_settled, result>>

tvars ==
  <<task, edges, child_outcomes, tpc, clause_res, func_calls, func_args, input, sends, response_kind, last_response,
    gets, get_raw, get_res, get_first, exit, tresult>>

gvars == <<sel_runs, sel_demands, gstate, gruns, gattached>>

rvars == <<root_seen, root_retries>>

ivars == <<icands, istore, iruns, ires>>

nvars == <<nkey, npc, nlog, nres, ncast>>

vvars == <<viz_colors, viz_order, viz_walk, viz_last>>

xvars == <<ivars, nvars, vvars>>

vars == <<svars, tvars, gvars, rvars, xvars>>

\* No Task is run.
TaskIdle ==
  /\ task = NoneV
  /\ edges = <<>>
  /\ child_outcomes = <<>>
  /\ tpc = "idle"
  /\ clause_res = <<>>
  /\ func_calls = 0
  /\ func_args = <<>>
  /\ input = NoneValue
  /\ sends = 0
  /\ response_kind = "None"
  /\ last_response = NoneV
  /\ gets = <<>>
  /\ get_raw = <<>>
  /\ get_res = <<>>
  /\ get_first = 0
  /\ exit = "none"
  /\ tresult = Pending

\* The node keys the graph store holds besides Select: one of each kind.
StoreKinds == {"Task", "Snapshot", "ExecuteProcess", "Scandir", "ReadLink", "DigestFile"}

\* An empty graph store that nothing is requested of.
GraphIdle ==
  /\ sel_runs = 0
  /\ sel_demands = <<>>
  /\ gstate = [k \in StoreKinds |-> "absent"]
  /\ gruns = [k \in StoreKinds |-> 0]
  /\ gattached = {}

\* No root caller.
RootIdle ==
  /\ root_seen = Pending
  /\ root_retries = 0

\* No intrinsic candidate is run.
IntrinsicIdle ==
  /\ icands = <<>>
  /\ istore = <<>>
  /\ iruns = 0
  /\ ires = Pending

\* No node is run through NodeKey::run.
NodeIdle ==
  /\ nkey = NoneV
  /\ npc = "idle"
  /\ nlog = <<>>
  /\ nres = Pending
  /\ ncast = NoneV

\* No graph is exported: the Visualizer is as Default makes it.
VizIdle ==
  /\ viz_colors = <<>>
  /\ viz_order = <<>>
  /\ viz_walk = <<>>
  /\ viz_last = NoneV

\* None of the other machines runs.
ExtraIdle == IntrinsicIdle /\ NodeIdle /\ VizIdle

\* No Select is run as the root.
SelectIdle ==
  /\ select = NoneV
  /\ singleton = NoneV
  /\ pc = "idle"
  /\ variant_value = NoneV
  /\ nodes = <<>>
  /\ singleton_lookups = 0
  /\ first_settled = 0
  /\ result = Pending

Singletons == {NoneV} \cup {Some(v) : v \in TaskValues}

Init ==
  /\ select \in Selects
  /\ singleton \in Singletons
  /\ pc = "new"
  /\ variant_value = NoneV
  /\ nodes = <<>>
  /\ singleton_lookups = 0
  /\ first_settled = 0
  /\ result = Pending
  /\ TaskIdle
  /\ GraphIdle
  /\ RootIdle
  /\ ExtraIdle

\* Select::run, up to the creation of deps_future.
SelectRun ==
  /\ pc = "new"
  /\ LET head == run_head(select) IN
     IF head.tag = "Return"
       THEN /\ result' = head.result
            /\ pc' = "done"
            /\ UNCHANGED <<variant_value, nodes, singleton_lookups>>
       ELSE /\ variant_value' = head.variant_value
            /\ nodes' = gen_nodes(select, singleton)
            /\ singleton_lookups' = singleton_lookups + 1
            /\ pc' = "joining"
            /\ UNCHANGED result
  /\ UNCHANGED <<xvars, select, singleton, first_settled, tvars, gvars, rvars>>

\* A candidate node (a Task or an intrinsic) completes.
CandidateSettle ==
  /\ pc = "joining"
  /\ \E i \in 1..Len(nodes) : \E outcome \in CandidateOutcomes :
       /\ nodes[i].res = Pending
       /\ nodes' = [nodes EXCEPT ![i].res = outcome]
       /\ first_settled' = IF first_settled = 0 THEN i ELSE first_settled
  /\ UNCHANGED <<xvars, select, singleton, pc, variant_value, singleton_lookups, result, tvars, gvars, rvars>>

\* What deps_future holds of each candidate.
JoinElems == [i \in 1..Len(nodes) |-> join_input(nodes[i].res)]

\* deps_future completes and choose_task_result decides.
SelectJoin ==
  /\ pc = "joining"
  /\ join_all_ready(JoinElems)
  /\ LET joined == join_all(JoinElems) IN
     result' = IF joined.tag = "Ok"
                 THEN choose_task_result(select, joined.v, variant_value)
                 ELSE joined
  /\ pc' = "done"
  /\ UNCHANGED <<xvars, select, singleton, variant_value, nodes, singleton_lookups, first_settled,
               tvars, gvars, rvars>>

Next == SelectRun \/ CandidateSettle \/ SelectJoin

Spec == Init /\ [][Next]_vars

\* ------------------------------------------------------------ the root caller
\* The Selects a root caller asks for: a plain subject, any entries.
RootSelects == {s \in Selects : ~s.subject.has_products}

InitRoot ==
  /\ select \in RootSelects
  /\ singleton \in Singletons
  /\ pc = "new"
  /\ variant_value = NoneV
  /\ nodes = <<>>
  /\ singleton_lookups = 0
  /\ first_settled = 0
  /\ result = Pending
  /\ TaskIdle
  /\ GraphIdle
  /\ RootIdle
  /\ ExtraIdle

\* A root caller that reports the node's result as it is.
root_outcome_Raw(res) == res

\* What the root caller reports of a result that is not Invalidated: the
\* root's value is required, so a Noop is reported as a Throw.
root_outcome(res) == IF IsFailure(res) THEN was_required(res) ELSE res

\* impl Node for NodeKey::run on a Select: the result of Select::run, as a
\* NodeResult::Value when it is a value.
node_key_run(res) == res

\* The root caller takes the result of its Select.
RootObserve ==
  /\ pc = "done"
  /\ root_seen = Pending
  /\ node_key_run(result) # FailInvalidated
  /\ root_seen' = root_outcome(node_key_run(result))
  /\ UNCHANGED <<xvars, svars, tvars, gvars, root_retries>>

\* The root caller runs its Select again after an Invalidated.
RootRetry ==
  /\ pc = "done"
  /\ root_seen = Pending
  /\ node_key_run(result) = FailInvalidated
  /\ root_retries < MaxRetries
  /\ root_retries' = root_retries + 1
  /\ pc' = "new"
  /\ variant_value' = NoneV
  /\ nodes' = <<>>
  /\ singleton_lookups' = 0
  /\ first_settled' = 0
  /\ result' = Pending
  /\ UNCHANGED <<xvars, select, singleton, tvars, gvars, root_seen>>

NextRoot == SelectRun \/ CandidateSettle \/ SelectJoin \/ RootObserve \/ RootRetry

SpecRoot == InitRoot /\ [][NextRoot]_vars

\* ---------------------------------------------------------- the Task machine
\* The Select of clause selector i.
ClauseSelect(i) == new_with_selector(task.clause[i], task.subject, task.variants, edges)

\* A gen_get whose Selects inherit the variants of the Task.
GetSelect_Inherit(get) ==
  new_with_entries(get.product, get.subject, task.variants,
                   EntryIds(entries_for(edges, JustGet(get.product, type_id(get.subject)))))

\* The Select gen_get runs for a Get.
GetSelect(get) ==
  new_with_entries(get.product, get.subject, VariantsDefault,
                   EntryIds(entries_for(edges, JustGet(get.product, type_id(get.subject)))))

InitTask ==
  /\ SelectIdle
  /\ GraphIdle
  /\ RootIdle
  /\ ExtraIdle
  /\ task \in Tasks
  /\ edges \in EdgeLists
  /\ child_outcomes =
       [clause |-> [i \in 1..Len(task.clause) |-> ChildOutcomes(ClauseSelect(i))],
        get |-> [g \in Gets |-> ChildOutcomes(GetSelect(g))]]
  /\ tpc = "new"
  /\ clause_res = <<>>
  /\ func_calls = 0
  /\ func_args = <<>>
  /\ input = NoneValue
  /\ sends = 0
  /\ response_kind = "None"
  /\ last_response = NoneV
  /\ gets = <<>>
  /\ get_raw = <<>>
  /\ get_res = <<>>
  /\ get_first = 0
  /\ exit = "none"
  /\ tresult = Pending

\* How gen_get maps a Get's Select: .map_err(was_required).
gen_get_map(res) == IF IsFailure(res) THEN was_required(res) ELSE res

\* A loop that goes on with the first value after a GetMulti as after a Get.
loop_continue_AlwaysFirst(kind, values) ==
  IF Len(values) > 0 THEN values[1] ELSE store_tuple(values)

\* Loop::Continue of generate: the value the loop goes on with after a Get
\* (the single value) and after a GetMulti (the tuple of the values).
loop_continue(kind, values) ==
  IF kind = "Get" THEN values[1] ELSE store_tuple(values)

\* How Task::run maps a clause Select: its result as it is.
clause_map(res) == res

\* Task::run: the clause Selects are started and joined.
TaskRun ==
  /\ tpc = "new"
  /\ clause_res' = [i \in 1..Len(task.clause) |-> Pending]
  /\ tpc' = "deps"
  /\ UNCHANGED <<xvars, svars, gvars, rvars, task, edges, child_outcomes, func_calls, func_args, input, sends, response_kind, last_response,
                 gets, get_raw, get_res, get_first, exit, tresult>>

\* A clause Select completes.
ClauseSettle ==
  /\ tpc = "deps"
  /\ \E i \in {j \in 1..Len(clause_res) : clause_res[j] = Pending} :
     \E res \in child_outcomes.clause[i] :
       clause_res' = [clause_res EXCEPT ![i] = clause_map(res)]
  /\ UNCHANGED <<xvars, svars, gvars, rvars, task, edges, child_outcomes, tpc, func_calls, func_args, input, sends,
                 response_kind, last_response, gets, get_raw, get_res, get_first, exit, tresult>>

\* The clause join completes: a failure fails the Task, else the user function
\* is called and returns a value, a generator or a Throw.
DepsJoin ==
  /\ tpc = "deps"
  /\ join_all_ready(clause_res)
  /\ LET joined == join_all(clause_res) IN
     IF IsFailure(joined)
       THEN /\ tresult' = joined
            /\ tpc' = "done"
            /\ exit' = "clause"
            /\ UNCHANGED <<func_calls, func_args>>
       ELSE \E ret \in FuncResults :
            /\ func_calls' = func_calls + 1
            /\ func_args' = joined.v
            /\ IF IsFailure(ret)
                 THEN tresult' = ret /\ tpc' = "done" /\ exit' = "call"
               ELSE IF satisfied_by(GeneratorType, ret.v)
                 THEN tresult' = tresult /\ tpc' = "send" /\ exit' = exit
               ELSE tresult' = ret /\ tpc' = "done" /\ exit' = "value"
  /\ UNCHANGED <<xvars, svars, gvars, rvars, task, edges, child_outcomes, clause_res, input, sends, response_kind, last_response,
                 gets, get_raw, get_res, get_first>>

\* Task::generate: one generator_send and the match on its response.
GenSend ==
  /\ tpc = "send"
  /\ \E response \in Responses(sends + 1 < MaxSends, MaxGets - Len(task.clause)) :
       /\ sends' = sends + 1
       /\ last_response' = response
       /\ CASE response.tag = "Get" ->
                 /\ gets' = <<response.get>>
                 /\ get_raw' = <<Pending>>
                 /\ get_res' = <<Pending>>
                 /\ get_first' = 0
                 /\ response_kind' = "Get"
                 /\ tpc' = "gen_deps"
                 /\ UNCHANGED <<tresult, exit>>
            [] response.tag = "GetMulti" ->
                 /\ gets' = response.gets
                 /\ get_raw' = [i \in 1..Len(response.gets) |-> Pending]
                 /\ get_res' = [i \in 1..Len(response.gets) |-> Pending]
                 /\ get_first' = 0
                 /\ response_kind' = "GetMulti"
                 /\ tpc' = "gen_deps"
                 /\ UNCHANGED <<tresult, exit>>
            [] response.tag = "Break" ->
                 /\ tresult' = Ok(response.val)
                 /\ tpc' = "done"
                 /\ exit' = "break"
                 /\ UNCHANGED <<gets, get_raw, get_res, get_first, response_kind>>
            [] OTHER ->
                 /\ tresult' = response
                 /\ tpc' = "done"
                 /\ exit' = "send"
                 /\ UNCHANGED <<gets, get_raw, get_res, get_first, response_kind>>
  /\ UNCHANGED <<xvars, svars, gvars, rvars, task, edges, child_outcomes, clause_res, func_calls, func_args, input>>

\* The Select of a Get completes.
GetSettle ==
  /\ tpc = "gen_deps"
  /\ \E i \in {j \in 1..Len(gets) : get_raw[j] = Pending} :
     \E res \in child_outcomes.get[gets[i]] :
       /\ get_raw' = [get_raw EXCEPT ![i] = res]
       /\ get_res' = [get_res EXCEPT ![i] = gen_get_map(res)]
       /\ get_first' = IF get_first = 0 THEN i ELSE get_first
  /\ UNCHANGED <<xvars, svars, gvars, rvars, task, edges, child_outcomes, tpc, clause_res, func_calls, func_args, input,
                 sends, response_kind, last_response, gets, exit, tresult>>

\* A loop that goes on as soon as the first requested Select has succeeded.
GenJoin_Eager ==
  /\ tpc = "gen_deps"
  /\ Len(get_res) > 0
  /\ get_res[1].tag = "Ok"
  /\ input' = get_res[1].v
  /\ tpc' = "send"
  /\ UNCHANGED <<xvars, svars, gvars, rvars, task, edges, child_outcomes, clause_res, func_calls, func_args, sends,
                 response_kind, last_response, gets, get_raw, get_res, get_first, tresult, exit>>

\* gen_get's join completes: a failure fails the Task, else the loop goes on
\* with the value (Get) or the tuple of the values (GetMulti). The Gets of
\* the response are kept until the next response replaces them.
GenJoin ==
  /\ tpc = "gen_deps"
  /\ join_all_ready(get_res)
  /\ LET joined == join_all(get_res) IN
     IF IsFailure(joined)
       THEN /\ tresult' = joined
            /\ tpc' = "done"
            /\ exit' = "get"
            /\ UNCHANGED input
       ELSE /\ input' = loop_continue(response_kind, joined.v)
            /\ tpc' = "send"
            /\ UNCHANGED <<tresult, exit>>
  /\ UNCHANGED <<xvars, svars, gvars, rvars, task, edges, child_outcomes, clause_res, func_calls, func_args, sends,
                 response_kind, last_response, gets, get_raw, get_res, get_first>>

NextTask == TaskRun \/ ClauseSettle \/ DepsJoin \/ GenSend \/ GetSettle \/ GenJoin

SpecTask == InitTask /\ [][NextTask]_vars

\* The Task under fair scheduling: a future that can make a step is polled
\* again (each completion notifies the task that waits for it), every
\* requested Select settles and every generator_send returns.
SpecTaskFair ==
  /\ InitTask
  /\ [][NextTask]_vars
  /\ WF_vars(TaskRun)
  /\ WF_vars(ClauseSettle)
  /\ WF_vars(DepsJoin)
  /\ WF_vars(GenSend)
  /\ WF_vars(GetSettle)
  /\ WF_vars(GenJoin)

\* --------------------------------------------------------- the graph store
\* The places of nodes.rs where a run body asks for a node of the graph
\* store: Select::gen_nodes for a Task, Select::snapshot, Select::execute_process,
\* and the VFS and StoreFileByDigest impls of Context that a Snapshot's run
\* goes through (context.expand, fs::Snapshot::from_path_stats).
RequestSites ==
  {[from |-> "Select", to |-> "Task"],
   [from |-> "Select", to |-> "Snapshot"],
   [from |-> "Select", to |-> "ExecuteProcess"],
   [from |-> "Snapshot", to |-> "Scandir"],
   [from |-> "Snapshot", to |-> "ReadLink"],
   [from |-> "Snapshot", to |-> "DigestFile"]}

\* Sites that call the Task's run body themselves.
request_via_Direct(from, to) == IF to = "Task" THEN "direct" ELSE "get"

\* How a site asks for the node: every one of them through context.get.
request_via(from, to) == "get"

\* Graph::get for a key: an absent key starts its run, a key whose run is in
\* flight or done gives that run's future.
graph_get(entry) ==
  IF entry = "absent"
    THEN [state |-> "running", started |-> TRUE]
    ELSE [state |-> entry, started |-> FALSE]

\* A run body of this kind is in progress.
Active(kind) == IF kind = "Select" THEN sel_runs > 0 ELSE gstate[kind] = "running"

InitGraph ==
  /\ SelectIdle
  /\ TaskIdle
  /\ GraphIdle
  /\ RootIdle
  /\ ExtraIdle

\* The places a Select is asked for: the root request of the scheduler, and
\* the .run(context) calls of Task::run (clause), Task::gen_get (get),
\* Select::snapshot, Select::gen_nodes (FilesContent) and
\* Select::execute_process.
RootSite == "root"
SelectSites == {RootSite, "clause", "get", "snapshot", "files_content", "execute_process"}

\* The kind of node whose run body holds the site.
SiteParent(site) == IF site \in {"clause", "get"} THEN "Task" ELSE "Select"

\* Sites that ask the graph store for the Select.
select_via_Get(site) == "get"

\* How a site asks for a Select: the root through the graph store, every
\* other site by calling the Select's run itself.
select_via(site) == IF site = RootSite THEN "get" ELSE "run"

\* A site asks for the Select: the root request comes first; the other sites
\* are reached from a run body in progress. A .run(context) call starts a run
\* body; a request to the graph store starts one only for an absent key.
SelectStart ==
  /\ Len(sel_demands) < MaxSelectRuns
  /\ \E site \in SelectSites :
       /\ IF site = RootSite THEN sel_demands = <<>> ELSE Active(SiteParent(site))
       /\ sel_demands' = Append(sel_demands, site)
       /\ sel_runs' = IF select_via(site) = "run" \/ sel_runs = 0
                        THEN sel_runs + 1
                        ELSE sel_runs
  /\ UNCHANGED <<xvars, svars, tvars, rvars, gstate, gruns, gattached>>

\* A run body in progress asks for a node at one of the request sites.
NodeRequest ==
  /\ \E site \in RequestSites :
       /\ Active(site.from)
       /\ IF request_via(site.from, site.to) = "get"
            THEN LET got == graph_get(gstate[site.to]) IN
                 /\ gstate' = [gstate EXCEPT ![site.to] = got.state]
                 /\ gruns' = [gruns EXCEPT ![site.to] = IF got.started THEN @ + 1 ELSE @]
                 /\ gattached' = IF gstate[site.to] = "running"
                                   THEN gattached \cup {site.to}
                                   ELSE gattached
            ELSE /\ gruns[site.to] < MaxSelectRuns
                 /\ gstate' = [gstate EXCEPT ![site.to] = "running"]
                 /\ gruns' = [gruns EXCEPT ![site.to] = @ + 1]
                 /\ UNCHANGED gattached
  /\ UNCHANGED <<xvars, svars, tvars, rvars, sel_runs, sel_demands>>

\* The run of a node completes (with no invalidation, for good).
NodeComplete ==
  /\ \E k \in StoreKinds :
       /\ gstate[k] = "running"
       /\ gstate' = [gstate EXCEPT ![k] = "done"]
  /\ UNCHANGED <<xvars, svars, tvars, rvars, sel_runs, sel_demands, gruns, gattached>>

NextGraph == SelectStart \/ NodeRequest \/ NodeComplete

SpecGraph == InitGraph /\ [][NextGraph]_vars

\* ------------------------------------------------- the intrinsic candidates
\* Result<_, String>::Err
Err(msg) == [tag |-> "Err", msg |-> msg]

\* The strings of an env list, named by their rank in string order.
EnvStrings == {1, 2}

\* project_multi_strs(value, "env"): the flat list of a host process request.
EnvLists == SeqsUpTo(EnvStrings, MaxEnvParts)

\* A BTreeMap that keeps the value a key got first.
BTreeInsert_KeepFirst(map, k, v) ==
  IF \E i \in 1..Len(map) : map[i][1] = k THEN map
  ELSE LET before == SelectSeq(map, LAMBDA e : e[1] < k)
           after == SelectSeq(map, LAMBDA e : e[1] > k)
       IN before \o <<<<k, v>>>> \o after

\* BTreeMap::insert on a map held as the list of its pairs in key order: the
\* value of a key that is present is replaced.
BTreeInsert(map, k, v) ==
  LET before == SelectSeq(map, LAMBDA e : e[1] < k)
      after == SelectSeq(map, LAMBDA e : e[1] > k)
  IN before \o <<<<k, v>>>> \o after

RECURSIVE EnvFrom(_, _, _)
\* The for loop of lift, from pair i on (i counts from 0 as in the source).
EnvFrom(env_var_parts, i, env) ==
  IF i >= Len(env_var_parts) \div 2 THEN env
  ELSE EnvFrom(env_var_parts, i + 1,
               BTreeInsert(env, env_var_parts[2 * i + 1], env_var_parts[2 * i + 2]))

\* A host digest value: its fingerprint and serialized_bytes_length strings.
GoodDigest == [fingerprint |-> "0a0b", serialized_bytes_length |-> "10"]
DigestValues ==
  {GoodDigest,
   [fingerprint |-> "0a0b", serialized_bytes_length |-> "ten"],
   [fingerprint |-> "xyz", serialized_bytes_length |-> "10"]}

\* str::parse::<usize> and Fingerprint::from_hex_string on the strings modelled.
parse_usize(str) == IF str = "10" THEN Ok(str) ELSE Err("invalid digit")
from_hex_string(str) == IF str = "0a0b" THEN Ok(str) ELSE Err("Invalid hex")

\* fn lift_digest
lift_digest(digest) ==
  LET digest_length == parse_usize(digest.serialized_bytes_length) IN
  IF digest_length.tag = "Err"
    THEN Err("Length was not a usize: " \o digest_length.msg)
  ELSE LET fingerprint == from_hex_string(digest.fingerprint) IN
       IF fingerprint.tag = "Err" THEN fingerprint
       ELSE Ok([fingerprint |-> fingerprint.v, length |-> digest_length.v])

\* Host ExecuteProcessRequest values: the env list and the input_files digest
\* (argv, the outputs, the timeout and the description are the same in all of
\* them and are left out of the key).
ProcessRequests == [env : EnvLists, input_files : DigestValues]

\* A lift that drops the last part of an odd env list.
lift_DropOddPart(value) ==
  LET digest == lift_digest(value.input_files) IN
  IF digest.tag = "Err" THEN Err("Error parsing digest " \o digest.msg)
  ELSE Ok([node |-> "ExecuteProcess", env |-> EnvFrom(value.env, 0, <<>>),
           input_files |-> digest.v])

\* ExecuteProcess::lift
lift(value) ==
  IF Len(value.env) % 2 # 0 THEN Err("Error parsing env: odd number of parts")
  ELSE LET digest == lift_digest(value.input_files) IN
       IF digest.tag = "Err" THEN Err("Error parsing digest " \o digest.msg)
       ELSE Ok([node |-> "ExecuteProcess", env |-> EnvFrom(value.env, 0, <<>>),
                input_files |-> digest.v])

\* Host PathGlobs values, and Snapshot(externs::key_for(path_globs_val)).
PathGlobsValues == {"src/*.py", "tests/*.py"}
snapshot_key(path_globs_val) == [node |-> "Snapshot", path_globs |-> path_globs_val]

\* tasks::IntrinsicKind
IntrinsicKinds == {"Snapshot", "FilesContent", "ProcessExecution"}

\* The intrinsic entries of the Select: one or two.
IntrinsicEntryLists ==
  {<<a>> : a \in IntrinsicKinds} \cup {<<a, b>> : a \in IntrinsicKinds, b \in IntrinsicKinds}

\* The values the inner Select of an intrinsic can give: path_globs,
\* directory_digest or process_request.
InnerValues(kind) ==
  CASE kind = "Snapshot" -> PathGlobsValues
    [] kind = "FilesContent" -> DigestValues
    [] kind = "ProcessExecution" -> ProcessRequests

\* What the inner Select can complete with.
InnerOutcomes(kind) ==
  {Ok(v) : v \in InnerValues(kind)}
    \cup {FailNoop(NoTask), FailThrow("user error 1"), FailInvalidated}

\* What context.get's future of a Snapshot or ExecuteProcess node completes
\* with: the node's result, its Throw, or Invalidated.
StoreOutcomes(key) ==
  {Ok(key.node), FailThrow("Failed to run " \o key.node), FailInvalidated}

\* What the store's load_directory and contents_for_directory give for a digest.
LoadOutcomes ==
  {Err("load failed"), Ok(NoneV), Ok(Some(Err("contents failed"))), Ok(Some(Ok("files")))}

\* The host value an intrinsic candidate packs its result into
\* (store_snapshot, store_files_content, construct_process_result).
IntrinsicValue(kind) ==
  CASE kind = "Snapshot" -> Leaf(ProductP, "snapshot")
    [] kind = "FilesContent" -> Leaf(ProductP, "files_content")
    [] kind = "ProcessExecution" -> Leaf(ProductP, "process_result")

\* An inner Select whose failure is taken as that of a required dependency.
inner_failure_Required(failure) == was_required(failure)

\* What a failed inner Select makes of the candidate: and_then passes the
\* failure on as it is.
inner_failure(failure) == failure

\* The step of the candidate after its inner Select gave a value: the node
\* key it asks the graph store for, the directory load it starts, or the
\* Throw of a failed lift.
after_inner(kind, val) ==
  CASE kind = "Snapshot" -> [pc |-> "node", key |-> snapshot_key(val), res |-> Pending]
    [] kind = "ProcessExecution" ->
         LET lifted == lift(val) IN
         IF lifted.tag = "Err"
           THEN [pc |-> "done", key |-> NoneV,
                 res |-> throw("Error lifting ExecuteProcess: " \o lifted.msg)]
           ELSE [pc |-> "node", key |-> lifted.v, res |-> Pending]
    [] kind = "FilesContent" ->
         LET lifted == lift_digest(val) IN
         IF lifted.tag = "Err"
           THEN [pc |-> "done", key |-> NoneV, res |-> throw(lifted.msg)]
           ELSE [pc |-> "load", key |-> NoneV, res |-> Pending]

\* The FilesContent chain after load_directory: every error is a Throw.
after_load(loaded) ==
  IF loaded.tag = "Err" THEN throw(loaded.msg)
  ELSE IF loaded.v.tag = "None" THEN throw("Could not find directory with digest")
  ELSE IF loaded.v.v.tag = "Err" THEN throw(loaded.v.v.msg)
  ELSE Ok(IntrinsicValue("FilesContent"))

\* The Select the intrinsic candidates belong to: product P, no variant key,
\* a subject that is no P.
OuterSelect ==
  [subject |-> Leaf(OtherQ, "a"), variants |-> <<>>,
   selector |-> without_variant(ProductP), entries |-> <<2>>]

InitIntrinsic ==
  /\ SelectIdle
  /\ TaskIdle
  /\ GraphIdle
  /\ RootIdle
  /\ NodeIdle
  /\ VizIdle
  /\ \E kinds \in IntrinsicEntryLists :
       icands = [c \in 1..Len(kinds) |->
                   [kind |-> kinds[c], pc |-> "inner", inner |-> Pending,
                    key |-> NoneV, res |-> Pending]]
  /\ istore = <<>>
  /\ iruns = 0
  /\ ires = Pending

\* The inner Select of a candidate completes and the chain behind it runs up
\* to the next future: a failure ends the candidate; a value is lifted and the
\* node is asked of the graph store (a new key starts its run body, a known
\* key gives the node it has), or the directory load is started.
InnerSettle ==
  /\ \E c \in 1..Len(icands) : \E outcome \in InnerOutcomes(icands[c].kind) :
       /\ icands[c].pc = "inner"
       /\ IF IsFailure(outcome)
            THEN /\ icands' = [icands EXCEPT ![c].inner = outcome, ![c].pc = "done",
                                             ![c].res = inner_failure(outcome)]
                 /\ UNCHANGED <<istore, iruns>>
            ELSE LET next == after_inner(icands[c].kind, outcome.v) IN
                 /\ icands' = [icands EXCEPT ![c].inner = outcome, ![c].pc = next.pc,
                                             ![c].key = next.key, ![c].res = next.res]
                 /\ IF next.pc = "node"
                      THEN LET got == graph_get(IF next.key \in DOMAIN istore
                                                  THEN "known" ELSE "absent")
                           IN /\ istore' = [k \in DOMAIN istore \cup {next.key} |->
                                              IF k \in DOMAIN istore THEN istore[k]
                                              ELSE Pending]
                              /\ iruns' = IF got.started THEN iruns + 1 ELSE iruns
                      ELSE UNCHANGED <<istore, iruns>>
  /\ UNCHANGED <<svars, tvars, gvars, rvars, nvars, vvars, ires>>

\* The run of a node of the graph store completes.
StoreSettle ==
  /\ \E key \in DOMAIN istore : \E outcome \in StoreOutcomes(key) :
       /\ istore[key] = Pending
       /\ istore' = [istore EXCEPT ![key] = outcome]
  /\ UNCHANGED <<svars, tvars, gvars, rvars, nvars, vvars, icands, iruns, ires>>

\* A candidate gets its node's result from the graph store and packs it.
CandidateNode ==
  /\ \E c \in 1..Len(icands) :
       /\ icands[c].pc = "node"
       /\ istore[icands[c].key] # Pending
       /\ icands' = [icands EXCEPT
                       ![c].pc = "done",
                       ![c].res = IF IsFailure(istore[icands[c].key])
                                    THEN istore[icands[c].key]
                                    ELSE Ok(IntrinsicValue(icands[c].kind))]
  /\ UNCHANGED <<svars, tvars, gvars, rvars, nvars, vvars, istore, iruns, ires>>

\* The directory load of a FilesContent candidate completes.
CandidateLoad ==
  /\ \E c \in 1..Len(icands) : \E loaded \in LoadOutcomes :
       /\ icands[c].pc = "load"
       /\ icands' = [icands EXCEPT ![c].pc = "done", ![c].res = after_load(loaded)]
  /\ UNCHANGED <<svars, tvars, gvars, rvars, nvars, vvars, istore, iruns, ires>>

\* The join of the Select: every candidate has completed.
IntrinsicJoin ==
  /\ ires = Pending
  /\ \A c \in 1..Len(icands) : icands[c].pc = "done"
  /\ ires' = LET joined == join_all([c \in 1..Len(icands) |-> join_input(icands[c].res)])
             IN choose_task_result(OuterSelect, joined.v, NoneV)
  /\ UNCHANGED <<svars, tvars, gvars, rvars, nvars, vvars, icands, istore, iruns>>

NextIntrinsic ==
  InnerSettle \/ StoreSettle \/ CandidateNode \/ CandidateLoad \/ IntrinsicJoin

SpecIntrinsic == InitIntrinsic /\ [][NextIntrinsic]_vars

\* ------------------------------------------------------ the node run bodies
\* {:?} of an error of a collaborator, and of a Failure.
debug(e) == "\"" \o e \o "\""
debug_failure(failure) ==
  CASE failure.tag = "Throw" -> "Throw(" \o failure.msg \o ")"
    [] failure.tag = "Invalidated" -> "Invalidated"
    [] failure.tag = "Noop" -> "Noop(" \o failure.noop \o ")"

\* The typed results of the WrappedNodes: type Item of each impl.
Value(v) == [type |-> "Value", v |-> v]
ArcSnapshot(v) == [type |-> "Snapshot", v |-> v]
Digest(v) == [type |-> "Digest", v |-> v]
ProcessResult(v) == [type |-> "ProcessResult", v |-> v]
LinkDest(v) == [type |-> "LinkDest", v |-> v]
ArcDirectoryListing(v) == [type |-> "DirectoryListing", v |-> v]

ItemTypes == {"Value", "Snapshot", "Digest", "ProcessResult", "LinkDest", "DirectoryListing"}

\* A From that wraps a LinkDest as a Value.
NodeResultFrom_LinkDestAsValue(v) ==
  CASE v.type = "Value" -> [variant |-> "Value", v |-> v.v]
    [] v.type = "Snapshot" -> [variant |-> "Snapshot", v |-> v.v]
    [] v.type = "Digest" -> [variant |-> "Digest", v |-> v.v]
    [] v.type = "ProcessResult" -> [variant |-> "ProcessResult", v |-> v.v]
    [] v.type = "LinkDest" -> [variant |-> "Value", v |-> v.v]
    [] v.type = "DirectoryListing" -> [variant |-> "DirectoryListing", v |-> v.v]

\* impl From<..> for NodeResult, one per typed result.
NodeResultFrom(v) ==
  CASE v.type = "Value" -> [variant |-> "Value", v |-> v.v]
    [] v.type = "Snapshot" -> [variant |-> "Snapshot", v |-> v.v]
    [] v.type = "Digest" -> [variant |-> "Digest", v |-> v.v]
    [] v.type = "ProcessResult" -> [variant |-> "ProcessResult", v |-> v.v]
    [] v.type = "LinkDest" -> [variant |-> "LinkDest", v |-> v.v]
    [] v.type = "DirectoryListing" -> [variant |-> "DirectoryListing", v |-> v.v]

\* impl TryFrom<NodeResult> for NodeResult and for each typed result, by the
\* type asked for; Err(()) is the unit error.
try_from(target, nr) ==
  CASE target = "NodeResult" -> Ok(nr)
    [] target = "Value" ->
         IF nr.variant = "Value" THEN Ok(Value(nr.v)) ELSE Err(<<>>)
    [] target = "Snapshot" ->
         IF nr.variant = "Snapshot" THEN Ok(ArcSnapshot(nr.v)) ELSE Err(<<>>)
    [] target = "Digest" ->
         IF nr.variant = "Digest" THEN Ok(Digest(nr.v)) ELSE Err(<<>>)
    [] target = "ProcessResult" ->
         IF nr.variant = "ProcessResult" THEN Ok(ProcessResult(nr.v)) ELSE Err(<<>>)
    [] target = "LinkDest" ->
         IF nr.variant = "LinkDest" THEN Ok(LinkDest(nr.v)) ELSE Err(<<>>)
    [] target = "DirectoryListing" ->
         IF nr.variant = "DirectoryListing" THEN Ok(ArcDirectoryListing(nr.v)) ELSE Err(<<>>)

\* NodeKey::run: .map(|v| v.into()) on the future of the node's run body.
into_node_result(res) == IF res.tag = "Ok" THEN Ok(NodeResultFrom(res.v)) ELSE res

\* A host PathGlobs value that lift_path_globs cannot parse.
BadPathGlobs == "src/[.py"

\* Snapshot::lift_path_globs
lift_path_globs(item) ==
  IF item = BadPathGlobs
    THEN Err("Failed to parse PathGlobs for include(" \o debug(item) \o "), exclude(): bad pattern")
    ELSE Ok([include |-> item])

\* The node keys NodeKey::run is called on: two of each kind, and a Snapshot
\* of path globs that do not parse.
NodeKeys ==
  {[node |-> "ReadLink", link |-> l] : l \in {"a/link", "b/link"}}
    \cup {[node |-> "Scandir", dir |-> d] : d \in {"a", "b"}}
    \cup {[node |-> "DigestFile", file |-> f] : f \in {"a/f.py", "b/f.py"}}
    \cup {lift([env |-> env, input_files |-> GoodDigest]).v : env \in {<<>>, <<1, 2>>}}
    \cup {snapshot_key(globs) : globs \in PathGlobsValues \cup {BadPathGlobs}}
    \cup {[node |-> "Select", product |-> p] : p \in {ProductP, OtherQ}}
    \cup {[node |-> "Task", product |-> p] : p \in {ProductP, OtherQ}}

\* What the collaborators give: the VFS, the content store, the process
\* runner, PathGlobs expansion and fs::Snapshot::from_path_stats.
IoErrors == {"No such file or directory", "Permission denied"}
ReadLinkOutcomes == {Ok([path |-> "target"])} \cup {Err(e) : e \in IoErrors}
ScandirOutcomes ==
  {Ok([stats |-> <<>>]), Ok([stats |-> <<"f.py">>])} \cup {Err(e) : e \in IoErrors}
ReadFileOutcomes == {Ok([content |-> "x = 1"]), Ok([content |-> ""])} \cup {Err(e) : e \in IoErrors}
StoreBytesOutcomes == {Ok(lift_digest(GoodDigest).v), Err("Error storing file bytes")}
CommandRunnerOutcomes ==
  {Ok([exit_code |-> 0]), Ok([exit_code |-> 1]), Err("Failed to spawn"), Err("Timed out")}
ExpandOutcomes ==
  {Ok([path_stats |-> <<>>]), Ok([path_stats |-> <<"src/a.py">>]),
   Err(throw("Failed to scandir for " \o debug("src") \o ": " \o debug("Permission denied"))),
   Err(FailInvalidated)}
FromPathStatsOutcomes(path_stats) ==
  {Ok([digest |-> lift_digest(GoodDigest).v, path_stats |-> path_stats.path_stats]),
   Err("Error storing directory")}

\* ExecuteProcess::run on what command_runner.run gave.
ExecuteProcessRun(ran) ==
  IF ran.tag = "Err" THEN throw("Failed to execute process: " \o ran.msg)
  ELSE Ok(ProcessResult(ran.v))

\* ReadLink::run on what vfs.read_link gave.
ReadLinkRun(link, read) ==
  IF read.tag = "Err"
    THEN throw("Failed to read_link for " \o debug(link) \o ": " \o debug(read.msg))
    ELSE Ok(LinkDest(read.v))

\* Scandir::run on what vfs.scandir gave.
ScandirRun(dir, listing_res) ==
  IF listing_res.tag = "Err"
    THEN throw("Failed to scandir for " \o debug(dir) \o ": " \o debug(listing_res.msg))
    ELSE Ok(ArcDirectoryListing(listing_res.v))

\* A DigestFile that stores whatever the read left, failed or not.
DigestFileRead_StoreAnyway(file, read) ==
  [pc |-> "store", res |-> Pending,
   content |-> IF read.tag = "Err" THEN NoneV ELSE Some(read.v.content)]

\* DigestFile::run on what vfs.read_file gave: a failed read ends the node,
\* a read that succeeded goes on to store_file_bytes(c.content, true).
DigestFileRead(file, read) ==
  IF read.tag = "Err"
    THEN [pc |-> "done",
          res |-> throw("Error reading file " \o debug(file) \o ": " \o debug(read.msg)),
          content |-> NoneV]
    ELSE [pc |-> "store", res |-> Pending, content |-> Some(read.v.content)]

\* DigestFile::run on what store_file_bytes gave.
DigestFileStore(stored) ==
  IF stored.tag = "Err" THEN throw(stored.msg) ELSE Ok(Digest(stored.v))

\* Snapshot::run on what lift_path_globs gave.
SnapshotLift(lifted) ==
  IF lifted.tag = "Err"
    THEN [pc |-> "done", res |-> throw("Failed to parse PathGlobs: " \o lifted.msg)]
    ELSE [pc |-> "expand", res |-> Pending]

\* Snapshot::create on what context.expand gave.
SnapshotExpand(expanded) ==
  IF expanded.tag = "Err"
    THEN [pc |-> "done",
          res |-> throw("PathGlobs expansion failed: " \o debug_failure(expanded.msg))]
    ELSE [pc |-> "from_path_stats", res |-> Pending]

\* Snapshot::create and Snapshot::run on what from_path_stats gave.
SnapshotFromPathStats(snapshot) ==
  IF snapshot.tag = "Err" THEN throw("Snapshot failed: " \o snapshot.msg)
  ELSE Ok(ArcSnapshot(snapshot.v))

\* A call of a collaborator, with its argument and what it gave.
Call(call, arg, res) == [call |-> call, arg |-> arg, res |-> res]

InitNode ==
  /\ SelectIdle
  /\ TaskIdle
  /\ GraphIdle
  /\ RootIdle
  /\ IntrinsicIdle
  /\ VizIdle
  /\ nkey \in NodeKeys
  /\ npc = "new"
  /\ nlog = <<>>
  /\ nres = Pending
  /\ ncast = NoneV

\* NodeKey::run on a node whose run body is one call: ReadLink, Scandir,
\* ExecuteProcess; and on a Select or a Task, whose run gives a Value or fails.
NodeRun ==
  /\ npc = "new"
  /\ nkey.node \in {"ReadLink", "Scandir", "ExecuteProcess", "Select", "Task"}
  /\ \/ /\ nkey.node = "ReadLink"
        /\ \E read \in ReadLinkOutcomes :
             /\ nlog' = Append(nlog, Call("read_link", nkey.link, read))
             /\ nres' = into_node_result(ReadLinkRun(nkey.link, read))
     \/ /\ nkey.node = "Scandir"
        /\ \E listing_res \in ScandirOutcomes :
             /\ nlog' = Append(nlog, Call("scandir", nkey.dir, listing_res))
             /\ nres' = into_node_result(ScandirRun(nkey.dir, listing_res))
     \/ /\ nkey.node = "ExecuteProcess"
        /\ \E ran \in CommandRunnerOutcomes :
             /\ nlog' = Append(nlog, Call("command_runner.run", nkey, ran))
             /\ nres' = into_node_result(ExecuteProcessRun(ran))
     \/ /\ nkey.node \in {"Select", "Task"}
        /\ \E outcome \in CandidateOutcomes :
             /\ nlog' = nlog
             /\ nres' = into_node_result(IF outcome.tag = "Ok" THEN Ok(Value(outcome.v))
                                         ELSE outcome)
  /\ npc' = "done"
  /\ UNCHANGED <<svars, tvars, gvars, rvars, ivars, vvars, nkey, ncast>>

\* DigestFile::run up to the end of read_file.
NodeReadFile ==
  /\ npc = "new"
  /\ nkey.node = "DigestFile"
  /\ \E read \in ReadFileOutcomes :
       LET next == DigestFileRead(nkey.file, read)
           logged == Append(nlog, Call("read_file", nkey.file, read))
       IN /\ npc' = next.pc
          /\ nres' = into_node_result(next.res)
          /\ nlog' = IF next.pc = "store"
                       THEN Append(logged, Call("store_file_bytes", next.content, Pending))
                       ELSE logged
  /\ UNCHANGED <<svars, tvars, gvars, rvars, ivars, vvars, nkey, ncast>>

\* store_file_bytes completes.
NodeStoreFile ==
  /\ npc = "store"
  /\ \E stored \in StoreBytesOutcomes :
       /\ nlog' = [nlog EXCEPT ![Len(nlog)].res = stored]
       /\ nres' = into_node_result(DigestFileStore(stored))
  /\ npc' = "done"
  /\ UNCHANGED <<svars, tvars, gvars, rvars, ivars, vvars, nkey, ncast>>

\* Snapshot::run up to the call of context.expand.
NodeLift ==
  /\ npc = "new"
  /\ nkey.node = "Snapshot"
  /\ LET lifted == lift_path_globs(nkey.path_globs)
         next == SnapshotLift(lifted)
         logged == Append(nlog, Call("lift_path_globs", nkey.path_globs, lifted))
     IN /\ npc' = next.pc
        /\ nres' = into_node_result(next.res)
        /\ nlog' = IF next.pc = "expand"
                     THEN Append(logged, Call("expand", lifted.v, Pending))
                     ELSE logged
  /\ UNCHANGED <<svars, tvars, gvars, rvars, ivars, vvars, nkey, ncast>>

\* context.expand completes.
NodeExpand ==
  /\ npc = "expand"
  /\ \E expanded \in ExpandOutcomes :
       LET next == SnapshotExpand(expanded)
           logged == [nlog EXCEPT ![Len(nlog)].res = expanded]
       IN /\ npc' = next.pc
          /\ nres' = into_node_result(next.res)
          /\ nlog' = IF next.pc = "from_path_stats"
                       THEN Append(logged, Call("from_path_stats", expanded.v, Pending))
                       ELSE logged
  /\ UNCHANGED <<svars, tvars, gvars, rvars, ivars, vvars, nkey, ncast>>

\* fs::Snapshot::from_path_stats completes.
NodeFromPathStats ==
  /\ npc = "from_path_stats"
  /\ \E snapshot \in FromPathStatsOutcomes(nlog[Len(nlog)].arg) :
       /\ nlog' = [nlog EXCEPT ![Len(nlog)].res = snapshot]
       /\ nres' = into_node_result(SnapshotFromPathStats(snapshot))
  /\ npc' = "done"
  /\ UNCHANGED <<svars, tvars, gvars, rvars, ivars, vvars, nkey, ncast>>

\* A caller downcasts the node's result to the type it asks for.
Downcast ==
  /\ npc = "done"
  /\ nres.tag = "Ok"
  /\ \E target \in ItemTypes \cup {"NodeResult"} :
       ncast' = [target |-> target, res |-> try_from(target, nres.v)]
  /\ UNCHANGED <<svars, tvars, gvars, rvars, ivars, vvars, nkey, npc, nlog, nres>>

NextNode ==
  \/ NodeRun
  \/ NodeReadFile
  \/ NodeStoreFile
  \/ NodeLift
  \/ NodeExpand
  \/ NodeFromPathStats
  \/ Downcast

SpecNode == InitNode /\ [][NextNode]_vars

\* ------------------------------------------------------------ the Visualizer
\* let max_colors = 12
max_colors == 12

\* format!("{}", n) of a usize: its decimal digits.
Digits == <<"0", "1", "2", "3", "4", "5", "6", "7", "8", "9">>
RECURSIVE to_string(_)
to_string(n) ==
  IF n < 10 THEN Digits[n + 1] ELSE to_string(n \div 10) \o Digits[(n % 10) + 1]

\* The product types of the Selects and Tasks of the graph, and typstr:
\* externs::key_to_str of the type's key.
TypeIds == 1..MaxTypes
typstr(tc) == "Type" \o to_string(tc)

\* The nodes of the graph that is exported: one of each kind that has a
\* fixed product string, and a Select and a Task of each product type.
VizNodes ==
  {[node |-> kind] : kind \in {"ExecuteProcess", "Snapshot", "DigestFile", "ReadLink", "Scandir"}}
    \cup {[node |-> kind, product |-> tc] : kind \in {"Select", "Task"}, tc \in TypeIds}

\* NodeKey::product_str
product_str(node) ==
  CASE node.node = "ExecuteProcess" -> "ProcessResult"
    [] node.node = "Select" -> typstr(node.product)
    [] node.node = "Task" -> typstr(node.product)
    [] node.node = "Snapshot" -> "Snapshot"
    [] node.node = "DigestFile" -> "DigestFile"
    [] node.node = "ReadLink" -> "LinkDest"
    [] node.node = "Scandir" -> "DirectoryListing"

\* The results color is called with: None while the node is pending, or what
\* the node completed with (the payload of a success is not read).
VizResults ==
  {NoneV, Some(FailNoop(NoTask)), Some(FailNoop(Cycle)), Some(FailThrow("user error 1")),
   Some(FailInvalidated), Some(Ok(NodeResultFrom(Value(Leaf(ProductP, "a")))))}

\* The orders in which the export can meet the product strings for the first
\* time: the strings in the order of product_str's arms and then of the type
\* ids, started at any of them, forwards or backwards.
BaseWalk ==
  <<"ProcessResult", "Snapshot", "DigestFile", "LinkDest", "DirectoryListing">>
    \o [n \in 1..MaxTypes |-> typstr(n)]
Rotated(walk, k) == [n \in 1..Len(walk) |-> walk[((n + k - 1) % Len(walk)) + 1]]
Reversed(walk) == [n \in 1..Len(walk) |-> walk[Len(walk) + 1 - n]]
Walks ==
  {Rotated(BaseWalk, k) : k \in 0..(Len(BaseWalk) - 1)}
    \cup {Reversed(Rotated(BaseWalk, k)) : k \in 0..(Len(BaseWalk) - 1)}

\* A palette index that does not wrap.
color_index_NoWrap(viz_colors_len) == viz_colors_len + 1

\* viz_colors_len % max_colors + 1
color_index(viz_colors_len) == (viz_colors_len % max_colors) + 1

\* Visualizer::color: the table after the call and the color returned.
color(colors, node, res) ==
  IF res = NoneV THEN [viz_colors |-> colors, color |-> "white"]
  ELSE IF res.v.tag = "Noop" THEN [viz_colors |-> colors, color |-> "white"]
  ELSE IF res.v.tag = "Throw" THEN [viz_colors |-> colors, color |-> "4"]
  ELSE IF res.v.tag = "Invalidated" THEN [viz_colors |-> colors, color |-> "12"]
  ELSE LET viz_colors_len == Cardinality(DOMAIN colors)
           key == product_str(node)
       IN IF key \in DOMAIN colors
            THEN [viz_colors |-> colors, color |-> colors[key]]
            ELSE LET inserted == to_string(color_index(viz_colors_len))
                 IN [viz_colors |-> [k \in DOMAIN colors \cup {key} |->
                                       IF k = key THEN inserted ELSE colors[k]],
                     color |-> inserted]

InitViz ==
  /\ SelectIdle
  /\ TaskIdle
  /\ GraphIdle
  /\ RootIdle
  /\ IntrinsicIdle
  /\ NodeIdle
  /\ viz_colors = <<>>
  /\ viz_order = <<>>
  /\ viz_walk \in Walks
  /\ viz_last = NoneV

\* One call of Visualizer::color, on a node whose product string the export
\* has met or is the next it meets.
Color ==
  /\ \E node \in VizNodes : \E res \in VizResults :
       LET key == product_str(node)
           called == color(viz_colors, node, res)
       IN /\ \/ key \in DOMAIN viz_colors
             \/ /\ Len(viz_order) < Len(viz_walk)
                /\ key = viz_walk[Len(viz_order) + 1]
          /\ viz_colors' = called.viz_colors
          /\ viz_order' = IF key \in DOMAIN called.viz_colors /\ key \notin DOMAIN viz_colors
                            THEN Append(viz_order, key)
                            ELSE viz_order
          /\ viz_last' = [node |-> node, result |-> res, color |-> called.color,
                          before |-> viz_colors]
  /\ UNCHANGED <<svars, tvars, gvars, rvars, ivars, nvars, viz_walk>>

NextViz == Color

SpecViz == InitViz /\ [][NextViz]_vars

\* ------------------------------------------------------- claims on Select
\* The candidates' outcomes, in entry order.
Outcomes == [i \in 1..Len(nodes) |-> nodes[i].res]

\* run went past the literal match, to rule dispatch, and has completed.
DispatchDone == pc = "done" /\ singleton_lookups > 0

\* The variant check of the selector passes: no key, or a key the variants hold.
VariantPasses ==
  \/ select.selector.variant_key = NoneV
  \/ \E i \in 1..Len(select.variants) :
       select.variants[i][1] = select.selector.variant_key.v

\* The variant value required of a value's name, when the check passes.
RequiredName ==
  IF select.selector.variant_key = NoneV THEN NoneV
  ELSE VariantsFind(select.variants, select.selector.variant_key.v)

\* The subject itself is of the product type, with the required name.
SubjectIsA ==
  /\ select.subject.ty = select.selector.product
  /\ RequiredName.tag = "Some" => select.subject.name = RequiredName.v

\* Candidate i returned a value that passes the literal-match check.
Matching(i) ==
  /\ nodes[i].res.tag = "Ok"
  /\ select_literal(select, nodes[i].res.v, variant_value).tag = "Some"

MatchingSet == {i \in 1..Len(nodes) : Matching(i)}
HardSet == {i \in 1..Len(nodes) : IsHard(nodes[i].res)}
NoopSet == {i \in 1..Len(nodes) : nodes[i].res.tag = "Noop"}
FirstHard == CHOOSE i \in HardSet : \A j \in HardSet : i <= j

\* The highest Noop reason among the candidates, NoTask when there is none.
MaxNoopReason ==
  IF NoopSet = {} THEN NoTask
  ELSE LET rs == {nodes[i].res.noop : i \in NoopSet} IN
       CHOOSE r \in rs : \A q \in rs : NoopRank(q) <= NoopRank(r)

\* C1: when the variant check passes and the subject itself satisfies the
\* product (with the required name), run returns exactly the subject and
\* creates no candidate: no singleton lookup, no Task node, no intrinsic.
C1_LiteralShortCircuit ==
  (pc # "new" /\ VariantPasses /\ SubjectIsA) =>
    /\ pc = "done"
    /\ result = Ok(select.subject)
    /\ nodes = <<>>
    /\ singleton_lookups = 0

\* A subject that is-a product and also has-a product, with entries and a singleton.
W1_LiteralShortCircuit ==
  /\ pc = "done"
  /\ VariantPasses /\ SubjectIsA
  /\ select.subject.has_products
  /\ Len(select.subject.products) > 0
  /\ select.subject.products[1].ty = select.selector.product
  /\ Len(select.entries) > 0
  /\ singleton # NoneV
  /\ result = Ok(select.subject)

\* C2 as stated: two or more matching candidates always give the conflict Throw.
Orig_C2_ConflictAlways ==
  (DispatchDone /\ Cardinality(MatchingSet) >= 2) => result = throw(ConflictMsg)

\* C2 (amended): with two or more matching candidates the Select never
\* succeeds; its result is the conflict Throw unless a candidate failed with
\* Throw or Invalidated, and then it is the first such failure in entry order.
C2_ConflictDetection ==
  (DispatchDone /\ Cardinality(MatchingSet) >= 2) =>
    /\ result.tag # "Ok"
    /\ HardSet = {} => result = throw(ConflictMsg)
    /\ HardSet # {} => result = nodes[FirstHard].res

\* Two candidates returned equal matching values: a conflict.
W2_ConflictDetection ==
  /\ DispatchDone
  /\ Len(nodes) >= 2
  /\ Matching(1) /\ Matching(2)
  /\ nodes[1].res = nodes[2].res
  /\ result = throw(ConflictMsg)

\* C3: when no candidate matches and every failure is a Noop, the result is
\* the Noop of the highest reason under NoTask < NoVariant < Cycle, and
\* Noop(NoTask) when no candidate failed.
C3_SeverityMonotone ==
  (DispatchDone /\ MatchingSet = {} /\ HardSet = {}) => result = FailNoop(MaxNoopReason)

\* The highest reason came first and a lower one last.
W3_SeverityMonotone ==
  /\ DispatchDone
  /\ Len(nodes) >= 2
  /\ nodes[1].res = FailNoop(Cycle)
  /\ nodes[Len(nodes)].res = FailNoop(NoVariant)
  /\ result = FailNoop(Cycle)

\* The Gets whose Select has completed.
SettledGets == {i \in 1..Len(get_raw) : get_raw[i] # Pending}

\* C4: a Get's Select that failed with Noop(reason) reaches the Task as the
\* Throw "No source of required dependency: reason", a Throw or Invalidated
\* of such a Select reaches it unchanged, and a Task that fails in gen_get
\* fails with the mapped failure of one of its Gets, never with a Noop.
C4_GetNoopBecomesThrow ==
  /\ \A i \in SettledGets :
       /\ get_raw[i].tag = "Noop" => get_res[i] = FailThrow(RequiredMsg \o get_raw[i].noop)
       /\ IsHard(get_raw[i]) => get_res[i] = get_raw[i]
       /\ get_raw[i].tag = "Ok" => get_res[i] = get_raw[i]
  /\ exit = "get" =>
       /\ tresult.tag \in {"Throw", "Invalidated"}
       /\ \E i \in SettledGets : IsFailure(get_raw[i]) /\ tresult = get_res[i]

\* A generator's only Get found no task for its product: the Task failed with
\* the Throw naming the missing dependency.
W4_GetNoopBecomesThrow ==
  /\ tpc = "done"
  /\ exit = "get"
  /\ response_kind = "Get"
  /\ get_raw = <<FailNoop(NoTask)>>
  /\ tresult = FailThrow("No source of required dependency: NoTask")

\* C11: the drive loop is sequential. A send happens only in the state
\* awaiting a response, one at a time, and only when every Select of the
\* previous response has settled (with a value); a Get or GetMulti response
\* leads to awaiting its Selects, and from there the loop goes back to
\* awaiting a response or ends.
C11_DriveLoopSequential ==
  [][/\ sends' # sends =>
          /\ tpc = "send"
          /\ sends' = sends + 1
          /\ \A i \in 1..Len(get_raw) : get_raw[i].tag = "Ok"
          /\ tpc' \in {"gen_deps", "done"}
     /\ (tpc = "send" /\ tpc' # tpc) => sends' = sends + 1
     /\ (tpc = "gen_deps" /\ tpc' # tpc) =>
          /\ tpc' \in {"send", "done"}
          /\ tpc' = "send" => \A i \in 1..Len(get_raw) : get_raw[i].tag = "Ok"
     /\ tpc = "done" => tpc' = "done"]_vars

\* Response, two Selects awaited, response again: a Break after a GetMulti.
W11_DriveLoopSequential ==
  /\ tpc = "done"
  /\ exit = "break"
  /\ sends = 2
  /\ response_kind = "GetMulti"
  /\ Len(gets) = 2
  /\ \A i \in 1..Len(get_raw) : get_raw[i].tag = "Ok"

\* C12: with no invalidation, the run body of every DigestFile, Scandir,
\* ReadLink, Snapshot, ExecuteProcess and Task key is started at most once,
\* whatever the Select runs and node bodies ask for and in whatever order: a
\* key is absent exactly as long as its run was never started.
C12_RunAtMostOnce ==
  \A k \in StoreKinds :
    /\ gruns[k] <= 1
    /\ gstate[k] = "absent" <=> gruns[k] = 0

\* Two Select runs: the Task and a DigestFile were asked for again while
\* their run was in flight, and each ran once.
W12_RunAtMostOnce ==
  /\ sel_runs = 2
  /\ {"Task", "DigestFile"} \subseteq gattached
  /\ gruns["Task"] = 1
  /\ gruns["DigestFile"] = 1

\* C21 (as stated): a Select asked for by two parents is run at most once.
Orig_C21_SelectRunOncePerKey == sel_runs <= 1

\* C21: the run body of every Task, Snapshot, ExecuteProcess, Scandir,
\* ReadLink and DigestFile key is started at most once, and the Select is run
\* once for every site that asked for it: as many run bodies as demands.
C21_SelectRunOncePerDemand ==
  /\ sel_runs = Len(sel_demands)
  /\ \A k \in StoreKinds : gruns[k] <= 1

\* After the root request a Task's clause asked for the Select again, and it
\* ran twice while the Task ran once.
W21_SelectRunOncePerDemand ==
  /\ sel_demands = <<RootSite, "clause">>
  /\ sel_runs = 2
  /\ gruns["Task"] = 1

\* The clause selector i has entries and none applies to the subject's type.
NoEntryApplies(i) ==
  /\ edges # <<>>
  /\ \A e \in 1..Len(edges) : edges[e].subject_type # type_id(task.subject)

\* C22 (as stated): a clause selector none of whose entries applies never
\* fails the Task by itself: a Task that failed at its clause join has a
\* failed clause Select of another selector.
Orig_C22_SelectorDropped ==
  (tpc = "done" /\ exit = "clause") =>
    \E i \in 1..Len(clause_res) : IsFailure(clause_res[i]) /\ ~NoEntryApplies(i)

\* C22: a Select is run for every clause selector; what is dropped are the
\* entries that do not apply to the subject's type. A selector none of whose
\* entries applies gets a Select without entries, which completes as a
\* Select without candidates does (the literal match or a Noop), and its
\* failure fails the Task at the clause join.
C22_EntriesDroppedNotSelectors ==
  tpc # "new" =>
    /\ Len(clause_res) = Len(task.clause)
    /\ \A i \in 1..Len(clause_res) :
         /\ \A e \in 1..Len(edges) :
              (edges[e].subject_type = type_id(task.subject))
                <=> (\E n \in 1..Len(ClauseSelect(i).entries) :
                       ClauseSelect(i).entries[n] = edges[e].id)
         /\ Len(ClauseSelect(i).entries) <= Len(edges)
         /\ NoEntryApplies(i) =>
              /\ ClauseSelect(i).entries = <<>>
              /\ clause_res[i] \in {Pending, select_run(ClauseSelect(i), NoneV, <<>>)}
              /\ (tpc = "done" /\ Len(clause_res) = 1 /\ IsFailure(clause_res[i])) =>
                   (exit = "clause" /\ tresult = clause_res[i])

\* A Task whose only clause selector has one entry, for another subject
\* type, failed at the clause join with that Select's Noop.
W22_EntriesDroppedNotSelectors ==
  /\ tpc = "done"
  /\ exit = "clause"
  /\ Len(task.clause) = 1
  /\ NoEntryApplies(1)
  /\ clause_res[1] = FailNoop(NoTask)
  /\ tresult = FailNoop(NoTask)

\* The candidates that run the ProcessExecution intrinsic and whose inner
\* Select gave a process request.
Lifting == {c \in 1..Len(icands) :
              icands[c].kind = "ProcessExecution" /\ icands[c].inner.tag = "Ok"}

\* The env list of the process request of candidate c.
EnvParts(c) == icands[c].inner.v.env

\* C23: a ProcessExecution candidate whose request has an env list of odd
\* length has failed with a Throw and has asked for no node; every
\* ExecuteProcess node of the graph store was asked for by a candidate with an
\* env list of even length. With
\* even length, part 2i is a name of the key's env and part 2i+1 is its value
\* (for the last pair of that name).
C23_OddEnvThrows ==
  /\ \A c \in Lifting :
       /\ Len(EnvParts(c)) % 2 = 1 =>
            /\ icands[c].pc = "done"
            /\ icands[c].res.tag = "Throw"
            /\ icands[c].key = NoneV
       /\ (Len(EnvParts(c)) % 2 = 0 /\ icands[c].key # NoneV) =>
            /\ \A i \in 0..(Len(EnvParts(c)) \div 2 - 1) :
                 \/ <<EnvParts(c)[2 * i + 1], EnvParts(c)[2 * i + 2]>>
                      \in {icands[c].key.env[n] : n \in 1..Len(icands[c].key.env)}
                 \/ \E j \in (i + 1)..(Len(EnvParts(c)) \div 2 - 1) :
                      EnvParts(c)[2 * j + 1] = EnvParts(c)[2 * i + 1]
            /\ \A n \in 1..Len(icands[c].key.env) :
                 \E i \in 0..(Len(EnvParts(c)) \div 2 - 1) :
                   icands[c].key.env[n] = <<EnvParts(c)[2 * i + 1], EnvParts(c)[2 * i + 2]>>
  /\ \A k \in DOMAIN istore :
       k.node = "ExecuteProcess" =>
         \E c \in Lifting : icands[c].key = k /\ Len(EnvParts(c)) % 2 = 0

\* Of two ProcessExecution candidates the one with three env parts failed with
\* a Throw and asked for nothing; the other, with two pairs, has its node.
W23_OddEnvThrows ==
  /\ Len(icands) = 2
  /\ Lifting = {1, 2}
  /\ Len(EnvParts(1)) = 3
  /\ icands[1].res.tag = "Throw"
  /\ icands[1].key = NoneV
  /\ Len(EnvParts(2)) = 4
  /\ EnvParts(2)[1] # EnvParts(2)[3]
  /\ DOMAIN istore = {icands[2].key}

\* C13 (as stated): a Task that failed at its clause join or at a Get join
\* failed only after every Select of that join had settled, and with the
\* failure the settled outcomes determine (the first in request order).
Orig_C13_TaskJoinsWaitForAll ==
  /\ (tpc = "done" /\ exit = "clause") =>
       /\ \A i \in 1..Len(clause_res) : clause_res[i] # Pending
       /\ tresult = join_all(clause_res)
  /\ (tpc = "done" /\ exit = "get") =>
       /\ \A i \in 1..Len(get_res) : get_res[i] # Pending
       /\ tresult = join_all(get_res)

Fits(value, required) ==
  /\ value.ty = select.selector.product
  /\ required.tag = "Some" => value.name = required.v

\* The literal match as claimed: the value itself if it fits; else, for a
\* has_products value, the first of its products that fits; else no match.
ExpectedLiteral(value, required) ==
  IF Fits(value, required) THEN Some(value)
  ELSE LET fitting == {i \in 1..Len(value.products) : Fits(value.products[i], required)} IN
       IF value.has_products /\ fitting # {}
         THEN Some(value.products[CHOOSE i \in fitting : \A j \in fitting : i <= j])
         ELSE NoneV

\* The candidates whose returned value has a literal match as claimed.
ExpectedMatches ==
  {i \in 1..Len(nodes) :
     /\ nodes[i].res.tag = "Ok"
     /\ ExpectedLiteral(nodes[i].res.v, variant_value).tag = "Some"}

\* C15: the literal match tries is-a before has-a and returns the first
\* fitting product in order. Applied to the subject it decides between the
\* immediate return and rule dispatch; applied to every candidate's value it
\* decides the matches that choose_task_result picks from.
C15_LiteralIsABeforeHasA ==
  /\ (pc # "new" /\ VariantPasses) =>
       LET expected == ExpectedLiteral(select.subject, RequiredName) IN
       /\ expected.tag = "Some" => (result = Ok(expected.v) /\ singleton_lookups = 0)
       /\ expected.tag = "None" => singleton_lookups > 0
  /\ (DispatchDone /\ HardSet = {}) =>
       /\ ExpectedMatches = {} => result.tag = "Noop"
       /\ Cardinality(ExpectedMatches) >= 2 => result = throw(ConflictMsg)
       /\ \A i \in ExpectedMatches :
            ExpectedMatches = {i} =>
              result = Ok(ExpectedLiteral(nodes[i].res.v, variant_value).v)

\* A subject that is not a product itself; its first product does not fit,
\* its second and third do: the second is returned.
W15_LiteralIsABeforeHasA ==
  /\ pc = "done"
  /\ select.selector.variant_key = NoneV
  /\ select.subject.ty # select.selector.product
  /\ Len(select.subject.products) = 3
  /\ select.subject.products[1].ty # select.selector.product
  /\ select.subject.products[2].ty = select.selector.product
  /\ select.subject.products[3].ty = select.selector.product
  /\ select.subject.products[2] # select.subject.products[3]
  /\ result = Ok(select.subject.products[2])

\* Rule dispatch was reached with a singleton registered for the product.
SingletonDispatch == singleton # NoneV /\ singleton_lookups > 0

\* The only candidate is the singleton's value; nothing is scheduled for an entry.
OnlySingletonCandidate ==
  nodes = <<[kind |-> SingletonNode, entry |-> 0, key |-> NoneV, res |-> Ok(singleton.v)]>>

\* C16 as stated: the result is the singleton's value when it passes the
\* literal-match check, and Noop(NoTask) otherwise.
Orig_C16_SingletonOnly ==
  SingletonDispatch =>
    /\ OnlySingletonCandidate
    /\ pc = "done" =>
         result = IF ExpectedLiteral(singleton.v, variant_value).tag = "Some"
                    THEN Ok(singleton.v)
                    ELSE FailNoop(NoTask)

\* C16 (amended): with a singleton registered and no literal match on the
\* subject, the singleton's value is the only candidate and nothing is
\* scheduled for any entry; the result is the literal match of that value
\* (the value itself, or else its first fitting product), and Noop(NoTask)
\* when it has none.
C16_SingletonOnly ==
  SingletonDispatch =>
    /\ OnlySingletonCandidate
    /\ pc = "done" =>
         LET expected == ExpectedLiteral(singleton.v, variant_value) IN
         result = IF expected.tag = "Some" THEN Ok(expected.v) ELSE FailNoop(NoTask)

\* A singleton that has the product among its products, with entries at
\* hand: the product is the result, and no entry was tried.
W16_SingletonOnly ==
  /\ pc = "done"
  /\ SingletonDispatch
  /\ Len(select.entries) >= 2
  /\ singleton.v.has_products
  /\ Len(nodes) = 1
  /\ result = Ok(singleton.v.products[1])

\* The position of the first failed future of a join (0: none has failed).
RECURSIVE FirstFailed(_, _)
FirstFailed(elems, i) ==
  IF i > Len(elems) THEN 0
  ELSE IF IsFailure(elems[i]) THEN i
  ELSE FirstFailed(elems, i + 1)

\* C19: under fair scheduling a Task that entered the generator loop eventually
\* completes; after a Break it completes with exactly the Break's value and
\* none of the Selects of the last response has failed; otherwise it completes
\* with the failed send's failure or with the failure of the first failed
\* Select of the last response; and once the Task is complete the generator is
\* never sent to again.
C19_GeneratorLoopCompletes ==
  /\ (tpc \in {"send", "gen_deps"}) ~> (tpc = "done")
  /\ [](tpc = "done" /\ sends > 0 =>
         /\ exit \in {"break", "send", "get"}
         /\ exit = "break" =>
              /\ last_response.tag = "Break"
              /\ tresult = Ok(last_response.val)
              /\ FirstFailed(get_res, 1) = 0
         /\ exit = "send" =>
              /\ IsFailure(last_response)
              /\ tresult = last_response
              /\ FirstFailed(get_res, 1) = 0
         /\ exit = "get" =>
              /\ FirstFailed(get_res, 1) > 0
              /\ tresult = get_res[FirstFailed(get_res, 1)])
  /\ [][tpc = "done" => (tpc' = "done" /\ sends' = sends /\ tresult' = tresult)]_vars

\* The loop ended with a Break after a round of Selects that all succeeded.
W19_GeneratorLoopCompletes ==
  /\ tpc = "done"
  /\ exit = "break"
  /\ sends > 1
  /\ Len(gets) > 0
  /\ \A i \in 1..Len(get_res) : get_res[i].tag = "Ok"

\* The clause Selects that failed.
FailedClauses == {i \in 1..Len(clause_res) : IsFailure(clause_res[i])}

\* C18: the value the next send passes to the generator is the None sentinel
\* before the first send, the Select's value after a Get, and after a GetMulti
\* the tuple of the Selects' values in request order, whichever completed first.
C18_SentValueIsPreviousResult ==
  tpc = "send" =>
    /\ sends = 0 => input = NoneValue
    /\ (sends > 0 /\ response_kind = "Get") =>
         (Len(gets) = 1 /\ input = get_raw[1].v)
    /\ (sends > 0 /\ response_kind = "GetMulti") =>
         input = store_tuple([i \in 1..Len(gets) |-> get_raw[i].v])

\* A GetMulti of two pairs whose second Select completed first, with
\* different values: the tuple is in request order.
W18_SentValueIsPreviousResult ==
  /\ tpc = "send"
  /\ response_kind = "GetMulti"
  /\ Len(gets) = 2
  /\ get_first = 2
  /\ get_raw[1] # get_raw[2]
  /\ input = store_tuple(<<get_raw[1].v, get_raw[2].v>>)

\* The Task nodes a Select spawns carry the Select's variants.
SpawnsWithOwnVariants(sel) ==
  LET ns == gen_nodes(sel, NoneV) IN
  \A n \in 1..Len(ns) :
    ns[n].kind = TaskRule =>
      /\ ns[n].key.variants = sel.variants
      /\ ns[n].key.subject = sel.subject

\* C20: every Select run for a Get of the last response has empty variants and
\* no variant_key (so its run looks no variant up), whatever the Task's
\* variants are; every clause Select has the Task's variants and its
\* selector as the clause wrote it; and the Task nodes either kind of Select
\* spawns carry that Select's variants.
C20_VariantsOfRequestedSelects ==
  /\ \A i \in 1..Len(gets) :
       /\ GetSelect(gets[i]).variants = <<>>
       /\ GetSelect(gets[i]).selector.variant_key = NoneV
       /\ variant_check(GetSelect(gets[i])) = Dispatch(NoneV)
       /\ SpawnsWithOwnVariants(GetSelect(gets[i]))
  /\ \A i \in 1..Len(clause_res) :
       /\ ClauseSelect(i).variants = task.variants
       /\ ClauseSelect(i).selector = task.clause[i]
       /\ SpawnsWithOwnVariants(ClauseSelect(i))

\* A Task with variants has run a clause Select and requested a Get, and both
\* Selects spawn a Task node.
W20_VariantsOfRequestedSelects ==
  /\ task.variants # <<>>
  /\ tpc = "gen_deps"
  /\ Len(clause_res) > 0
  /\ Len(gets) > 0
  /\ \E n \in 1..Len(ClauseSelect(1).entries) :
       rule_for_inner(ClauseSelect(1).entries[n]) = TaskRule
  /\ \E n \in 1..Len(GetSelect(gets[1]).entries) :
       rule_for_inner(GetSelect(gets[1]).entries[n]) = TaskRule

\* C17: the user function is called at most once, only when every clause
\* Select has succeeded, and with their values in clause order; once a clause
\* Select has failed the function is never called, the generator is never
\* sent to, and the Task, when it completes, fails at the clause join.
C17_FunctionCalledOnceAfterClause ==
  /\ func_calls <= 1
  /\ func_calls = 1 =>
       /\ Len(func_args) = Len(task.clause)
       /\ \A i \in 1..Len(clause_res) :
            clause_res[i].tag = "Ok" /\ func_args[i] = clause_res[i].v
  /\ (tpc \in {"send", "gen_deps"} \/ sends > 0 \/ exit \in {"call", "value"}) =>
       func_calls = 1
  /\ FailedClauses # {} =>
       /\ func_calls = 0
       /\ sends = 0
       /\ tpc \in {"deps", "done"}
       /\ tpc = "done" => (exit = "clause" /\ IsFailure(tresult))

\* Two clause Selects gave different values; the function got them in order.
W17_FunctionCalledOnceAfterClause ==
  /\ func_calls = 1
  /\ Len(func_args) = 2
  /\ func_args[1] # func_args[2]
  /\ func_args[1] = clause_res[1].v

\* C5 (as stated): Task::run never completes with a Noop, and a Task whose
\* failed clause Selects all returned a Noop fails with the Throw "No source
\* of required dependency" of one of them.
Orig_C5_ClauseNoopBecomesThrow ==
  tpc = "done" =>
    /\ tresult.tag # "Noop"
    /\ (exit = "clause" /\ \A i \in FailedClauses : clause_res[i].tag = "Noop") =>
         \E i \in FailedClauses : tresult = FailThrow(RequiredMsg \o clause_res[i].noop)

\* The outcome the candidates' results determine, whatever their completion order.
Determined ==
  IF HardSet # {} THEN nodes[FirstHard].res
  ELSE IF Cardinality(MatchingSet) >= 2 THEN throw(ConflictMsg)
  ELSE IF MatchingSet # {}
    THEN LET i == CHOOSE i \in MatchingSet : TRUE IN
         Ok(select_literal(select, nodes[i].res.v, variant_value).v)
  ELSE FailNoop(MaxNoopReason)

\* C6: a Select in rule dispatch has no result while a candidate is pending
\* (a failing candidate does not end the join), and its result is a function
\* of the candidates' outcomes alone, not of the order they completed in.
C6_JoinWaitsForAll ==
  /\ (singleton_lookups > 0 /\ result # Pending) =>
       \A i \in 1..Len(nodes) : nodes[i].res # Pending
  /\ DispatchDone => result = Determined

\* The last entry completed first, with a Noop; the first entry then succeeded.
W6_JoinWaitsForAll ==
  /\ DispatchDone
  /\ Len(nodes) >= 2
  /\ first_settled = Len(nodes)
  /\ nodes[Len(nodes)].res.tag = "Noop"
  /\ Matching(1)
  /\ result.tag = "Ok"

RECURSIVE PermsOf(_)
\* The orders the members of S can be put in.
PermsOf(S) ==
  IF S = {} THEN {<<>>}
  ELSE UNION {{<<x>> \o p : p \in PermsOf(S \ {x})} : x \in S}

Perms(n) == PermsOf(1..n)
Permuted(outs, f) == [i \in 1..Len(outs) |-> outs[f[i]]]

C8_HardFailureNotSwallowed ==
  (DispatchDone /\ HardSet # {}) => IsHard(result)

\* A matching success came before a Throw; the Throw is the result.
W8_HardFailureNotSwallowed ==
  /\ DispatchDone
  /\ Len(nodes) >= 2
  /\ Matching(1)
  /\ nodes[2].res.tag = "Throw"
  /\ result = nodes[2].res

C10_MissingVariant ==
  (pc # "new" /\ ~VariantPasses) =>
    /\ pc = "done"
    /\ result = FailNoop(NoVariant)
    /\ nodes = <<>>
    /\ singleton_lookups = 0

\* The subject is of the product type and entries exist, yet NoVariant.
W10_MissingVariant ==
  /\ pc = "done"
  /\ ~VariantPasses
  /\ select.subject.ty = select.selector.product
  /\ Len(select.entries) > 0
  /\ result = FailNoop(NoVariant)

\* ------------------------------------------------- claims on intrinsics
\* The name/value pairs of the env list of candidate c, in list order.
EnvPairs(c) ==
  [i \in 1..(Len(EnvParts(c)) \div 2) |-> <<EnvParts(c)[2 * i - 1], EnvParts(c)[2 * i]>>]

RECURSIVE Flat(_)
\* The flat list of a list of pairs.
Flat(pairs) ==
  IF pairs = <<>> THEN <<>> ELSE <<pairs[1][1], pairs[1][2]>> \o Flat(Tail(pairs))

\* No name occurs twice in the env list of candidate c.
DistinctNames(c) ==
  \A i, j \in 1..Len(EnvPairs(c)) : EnvPairs(c)[i][1] = EnvPairs(c)[j][1] => i = j

\* The candidates that got an ExecuteProcess key out of their request.
Lifted == {c \in Lifting : icands[c].key # NoneV}

\* C24: the ExecuteProcess key of a request with distinct env names is the
\* key of the same request with its pairs in any other order; the key's env
\* holds every name once, in name order, with the value of the name's last
\* pair; two candidates whose requests differ only in the order of the pairs
\* have one key, and the graph store starts one run body per key.
C24_EnvOrderIrrelevant ==
  /\ \A c \in Lifted :
       /\ DistinctNames(c) =>
            \A f \in Perms(Len(EnvPairs(c))) :
              lift([env |-> Flat(Permuted(EnvPairs(c), f)),
                    input_files |-> icands[c].inner.v.input_files]) = Ok(icands[c].key)
       /\ \A n, m \in 1..Len(icands[c].key.env) :
            n < m => icands[c].key.env[n][1] < icands[c].key.env[m][1]
       /\ \A i \in 1..Len(EnvPairs(c)) :
            (\A j \in (i + 1)..Len(EnvPairs(c)) : EnvPairs(c)[j][1] # EnvPairs(c)[i][1])
              => \E n \in 1..Len(icands[c].key.env) : icands[c].key.env[n] = EnvPairs(c)[i]
  /\ \A c, d \in Lifted :
       (/\ DistinctNames(c)
        /\ DistinctNames(d)
        /\ {EnvPairs(c)[i] : i \in 1..Len(EnvPairs(c))}
             = {EnvPairs(d)[i] : i \in 1..Len(EnvPairs(d))}
        /\ icands[c].inner.v.input_files = icands[d].inner.v.input_files)
         => icands[c].key = icands[d].key
  /\ iruns = Cardinality(DOMAIN istore)

\* Two candidates gave the same two pairs in different orders: one key, one
\* node, one run body.
W24_EnvOrderIrrelevant ==
  /\ Lifted = {1, 2}
  /\ Len(EnvPairs(1)) = 2
  /\ DistinctNames(1)
  /\ EnvParts(2) = Flat(<<EnvPairs(1)[2], EnvPairs(1)[1]>>)
  /\ icands[1].key = icands[2].key
  /\ DOMAIN istore = {icands[1].key}
  /\ iruns = 1

\* The candidates whose inner Select failed.
InnerFailed == {c \in 1..Len(icands) : IsFailure(icands[c].inner)}

\* The results of the candidates whose inner Select did not fail with a Noop.
OtherResults ==
  LET kept == SelectSeq([c \in 1..Len(icands) |-> c],
                        LAMBDA c : ~(c \in InnerFailed /\ icands[c].inner.tag = "Noop"))
  IN [n \in 1..Len(kept) |-> icands[kept[n]].res]

CollaboratorKinds == {"ReadLink", "Scandir", "DigestFile", "ExecuteProcess", "Snapshot"}

\* The calls of the log that gave an error.
FailedCalls == {n \in 1..Len(nlog) : nlog[n].res.tag = "Err"}

\* C25: the run body of a ReadLink, Scandir, DigestFile, ExecuteProcess or
\* Snapshot node fails only with a Throw; it fails when a call of a
\* collaborator gave an error, and that call is the last it made; and
\* DigestFile calls store_file_bytes only right after a read_file that
\* succeeded, with the content that was read.
C25_CollaboratorErrorsThrow ==
  nkey # NoneV /\ nkey.node \in CollaboratorKinds =>
    /\ IsFailure(nres) => nres.tag = "Throw" /\ FailedCalls = {Len(nlog)}
    /\ FailedCalls # {} => nres.tag = "Throw" /\ npc = "done"
    /\ \A n \in 1..Len(nlog) :
         nlog[n].call = "store_file_bytes" =>
           /\ n > 1
           /\ nlog[n - 1].call = "read_file"
           /\ nlog[n - 1].res.tag = "Ok"
           /\ nlog[n].arg = Some(nlog[n - 1].res.v.content)

\* A DigestFile node whose read failed: a Throw, and nothing was stored.
W25_CollaboratorErrorsThrow ==
  /\ nkey # NoneV
  /\ nkey.node = "DigestFile"
  /\ npc = "done"
  /\ nres.tag = "Throw"
  /\ Len(nlog) = 1
  /\ nlog[1].call = "read_file"
  /\ nlog[1].res.tag = "Err"

\* The variant of the result union each node kind gives.
VariantOf(node) ==
  CASE node \in {"Select", "Task"} -> "Value"
    [] node = "Snapshot" -> "Snapshot"
    [] node = "DigestFile" -> "Digest"
    [] node = "ExecuteProcess" -> "ProcessResult"
    [] node = "ReadLink" -> "LinkDest"
    [] node = "Scandir" -> "DirectoryListing"

\* Typed results to wrap and downcast: of every type, with two payloads.
TypedResults == {[type |-> t, v |-> [payload |-> n]] : t \in ItemTypes, n \in {1, 2}}

\* C26: a node that succeeded through NodeKey::run gave the variant of its
\* kind; a downcast of its result to the type of that variant gives back the
\* typed result and a downcast to any other typed result fails; and so it is
\* for every typed result wrapped by From.
C26_OneVariantPerKind ==
  /\ nkey # NoneV /\ nres.tag = "Ok" => nres.v.variant = VariantOf(nkey.node)
  /\ ncast # NoneV /\ ncast.target \in ItemTypes =>
       IF ncast.target = VariantOf(nkey.node)
         THEN /\ ncast.res.tag = "Ok"
              /\ ncast.res.v.type = ncast.target
              /\ NodeResultFrom(ncast.res.v) = nres.v
         ELSE ncast.res.tag = "Err"
  /\ \A v \in TypedResults : \A target \in ItemTypes :
       IF target = v.type
         THEN try_from(target, NodeResultFrom(v)) = Ok(v)
         ELSE try_from(target, NodeResultFrom(v)).tag = "Err"

\* A ReadLink node gave a LinkDest, and its downcast to a Value failed.
W26_OneVariantPerKind ==
  /\ nkey # NoneV
  /\ nkey.node = "ReadLink"
  /\ nres.tag = "Ok"
  /\ nres.v.variant = "LinkDest"
  /\ ncast # NoneV
  /\ ncast.target = "Value"
  /\ ncast.res.tag = "Err"

\* ------------------------------------------------- claims on the Visualizer
\* The palette: the indices 1..12 as color returns them.
Palette == {to_string(n) : n \in 1..12}

\* C28: the last call of color returned white for a pending or Noop node,
\* one fixed color for a Throw and another for an Invalidated node, and left
\* the table as it was; for a success it returned the table's color of the
\* node's product string, a palette index in 1..12; and the n-th product
\* string to enter the table has the index ((n - 1) mod 12) + 1.
C28_VisualizerColors ==
  /\ viz_last # NoneV =>
       IF viz_last.result = NoneV THEN
         viz_last.color = "white" /\ viz_colors = viz_last.before
       ELSE IF viz_last.result.v.tag = "Noop" THEN
         viz_last.color = "white" /\ viz_colors = viz_last.before
       ELSE IF viz_last.result.v.tag = "Throw" THEN
         viz_last.color = "4" /\ viz_colors = viz_last.before
       ELSE IF viz_last.result.v.tag = "Invalidated" THEN
         viz_last.color = "12" /\ viz_colors = viz_last.before
       ELSE
         /\ product_str(viz_last.node) \in DOMAIN viz_colors
         /\ viz_last.color = viz_colors[product_str(viz_last.node)]
         /\ viz_last.color \in Palette
         /\ \A key \in DOMAIN viz_last.before : viz_colors[key] = viz_last.before[key]
  /\ DOMAIN viz_colors = {viz_order[n] : n \in 1..Len(viz_order)}
  /\ Cardinality(DOMAIN viz_colors) = Len(viz_order)
  /\ \A n \in 1..Len(viz_order) :
       viz_colors[viz_order[n]] = to_string(((n - 1) % 12) + 1)

\* The thirteenth product string has entered the table and got the first
\* palette index again.
W28_VisualizerColors ==
  /\ Len(viz_order) = 13
  /\ viz_last # NoneV
  /\ viz_last.result # NoneV
  /\ viz_last.result.v.tag = "Ok"
  /\ product_str(viz_last.node) = viz_order[13]
  /\ viz_last.color = "1"

====
